---------------------------- MODULE Spec2Model ----------------------------
(***************************************************************************)
(* Vector math kernels of arm-optimized-routines (math/ and pl/math/):     *)
(* classifier, range reduction, polynomial, reconstruction and the         *)
(* special-case fallback of each kernel, lane by lane.                     *)
(*                                                                         *)
(* Machine words are little-endian sequences of 16-bit limbs (a uint64 is  *)
(* four limbs, a uint32 two), so that every integer the model computes     *)
(* stays below 2^31.  A floating-point value is a record [c, s, t]:        *)
(*   c = "nan" | "inf" | "fin", s the sign bit, and for a finite value t   *)
(*   the magnitude: <<"n", <<m, e>>>> is exactly m * 2^e (m odd, or 0),    *)
(*   any other t is a term naming the operation that produced an inexact   *)
(*   (rounded) value.  IEEE-754 rounding to nearest is symmetric in the    *)
(*   sign, so a term is kept in the form (-1)^s * V(t): negating every     *)
(*   operand of an operation flips s and leaves t alone.                   *)
(* A rounded term stands for a finite non-zero value.                      *)
(***************************************************************************)
EXTENDS Integers, Naturals, Sequences, FiniteSets, TLC

(* ------------------------------------------------------------------ *)
(* Machine words                                                      *)
(* ------------------------------------------------------------------ *)

Limb == 256 * 256

RECURSIVE Pow2(_)
Pow2(k) == IF k <= 0 THEN 1 ELSE 2 * Pow2(k - 1)

RECURSIVE BitLen(_)
BitLen(m) == IF m = 0 THEN 0 ELSE 1 + BitLen(m \div 2)

RECURSIVE BitAnd(_, _)
BitAnd(a, b) ==
  IF a = 0 \/ b = 0 THEN 0
  ELSE (a % 2) * (b % 2) + 2 * BitAnd(a \div 2, b \div 2)

RECURSIVE AddC(_, _, _)
AddC(a, b, c) ==
  IF a = <<>> THEN <<>>
  ELSE LET s == Head(a) + Head(b) + c
       IN  <<s % Limb>> \o AddC(Tail(a), Tail(b), s \div Limb)

\* a + b, a - b modulo 2^(16 * Len(a))
WAdd(a, b) == AddC(a, b, 0)

\* a word of 2 or 4 limbs written out as a tuple
Tup(f) ==
  IF Len(f) = 2 THEN <<f[1], f[2]>> ELSE <<f[1], f[2], f[3], f[4]>>

WNot(a) == Tup([i \in DOMAIN a |-> Limb - 1 - a[i]])
WSub(a, b) == AddC(a, WNot(b), 1)
WAnd(a, b) == Tup([i \in DOMAIN a |-> BitAnd(a[i], b[i])])
WXor(a, b) == Tup([i \in DOMAIN a |-> a[i] + b[i] - 2 * BitAnd(a[i], b[i])])
WOr(a, b) == Tup([i \in DOMAIN a |-> a[i] + b[i] - BitAnd(a[i], b[i])])
WZero(n) == Tup([i \in 1..n |-> 0])

RECURSIVE WLt(_, _)
WLt(a, b) ==
  IF a = <<>> THEN FALSE
  ELSE LET n == Len(a)
       IN  IF a[n] # b[n] THEN a[n] < b[n]
           ELSE WLt(SubSeq(a, 1, n - 1), SubSeq(b, 1, n - 1))
WGe(a, b) == ~WLt(a, b)
WGt(a, b) == WLt(b, a)
WLe(a, b) == ~WLt(b, a)

\* limb i of a, zero outside the word
LimbAt(a, i) == IF i \in DOMAIN a THEN a[i] ELSE 0

\* logical shifts by k bits
WShr(a, k) ==
  LET q == k \div 16
      r == k % 16
  IN  Tup([i \in DOMAIN a |->
             (LimbAt(a, i + q) \div Pow2(r))
             + (LimbAt(a, i + q + 1) % Pow2(r)) * Pow2(16 - r)])
WShl(a, k) ==
  LET q == k \div 16
      r == k % 16
  IN  Tup([i \in DOMAIN a |->
             (LimbAt(a, i - q) % Pow2(16 - r)) * Pow2(r)
             + (LimbAt(a, i - q - 1) \div Pow2(16 - r))])

\* a small natural (below 2^31) as an n-limb word, and back
WOf(n, v) == Tup([i \in 1..n |-> IF i = 1 THEN v % Limb
                                 ELSE IF i = 2 THEN v \div Limb ELSE 0])
WSmall(a) == \A i \in DOMAIN a : i > 2 => a[i] = 0
WVal(a) == a[1] + Limb * (IF Len(a) > 1 THEN a[2] ELSE 0)

\* a 64-bit and a 32-bit constant from its 16-bit groups, most significant first
W64(h3, h2, h1, h0) == <<h0, h1, h2, h3>>
W32(h1, h0) == <<h0, h1>>

(* ------------------------------------------------------------------ *)
(* Floating-point formats and values                                  *)
(* ------------------------------------------------------------------ *)

\* binary64 and binary32: limbs, precision, exponent field width, bias
F64 == [w |-> 4, p |-> 53, eb |-> 11, bias |-> 1023]
F32 == [w |-> 2, p |-> 24, eb |-> 8, bias |-> 127]

EMax(F) == F.bias
EMin(F) == 1 - F.bias
EField(F) == Pow2(F.eb) - 1
\* the widest exact significand the model keeps
PLim(F) == IF F.p < 30 THEN F.p ELSE 30

NaN == [c |-> "nan", s |-> 0, t |-> <<>>]
Inf(s) == [c |-> "inf", s |-> s, t |-> <<>>]
Fin(s, t) == [c |-> "fin", s |-> s, t |-> t]
Zero(s) == Fin(s, <<"n", <<0, 0>>>>)
Term(s, op, args) == Fin(s, <<op, args>>)

IsNaN(v) == v.c = "nan"
IsInf(v) == v.c = "inf"
IsExact(v) == v.c = "fin" /\ v.t[1] = "n"
IsZero(v) == IsExact(v) /\ v.t[2][1] = 0
IsTerm(v) == v.c = "fin" /\ v.t[1] # "n"
Mant(v) == v.t[2][1]
Expo(v) == v.t[2][2]
Xor1(a, b) == (a + b) % 2

RECURSIVE Num(_, _, _)
\* the exact value (-1)^s * m * 2^e, normalised
Num(s, m, e) ==
  IF m = 0 THEN Zero(s)
  ELSE IF m % 2 = 0 THEN Num(s, m \div 2, e + 1)
  ELSE Fin(s, <<"n", <<m, e>>>>)

\* exponent of the leading bit of an exact non-zero value
Top(v) == Expo(v) + BitLen(Mant(v)) - 1

\* the exact real (-1)^s * m * 2^e delivered in format F
Deliver(F, s, m, e) ==
  LET v == Num(s, m, e)
  IN  IF m = 0 THEN v
      ELSE IF Top(v) > EMax(F) THEN Inf(s)
      ELSE IF Top(v) < EMin(F) - F.p THEN Zero(s)
      ELSE IF Expo(v) >= EMin(F) - F.p + 1 THEN v
      ELSE Term(s, "subnormal", <<Mant(v), Expo(v)>>)

FNeg(v) == IF IsNaN(v) THEN v ELSE [v EXCEPT !.s = 1 - v.s]
FAbs(v) == IF IsNaN(v) THEN v
           ELSE IF IsTerm(v) /\ v.t[1] # "bits"
                  THEN Term(0, "abs", <<v.t>>)
           ELSE [v EXCEPT !.s = 0]
\* the term of b relative to sign s0
Rel(b, s0) == IF b.s = s0 THEN b.t ELSE <<"neg", <<b.t>>>>


\* bits of the fraction field held in the top limb
TopFrac(F) == 15 - F.eb
SignBit(w) == w[Len(w)] \div 32768
WithSign(w, s) ==
  Tup([i \in DOMAIN w |-> IF i = Len(w) THEN (w[i] % 32768) + 32768 * s
                          ELSE w[i]])

\* reinterpret a word as a value of format F
FromBits(F, w) ==
  LET n == F.w
      s == SignBit(w)
      fw == TopFrac(F)
      E == (w[n] % 32768) \div Pow2(fw)
      frac == (w[n] % Pow2(fw)) * Limb + w[n - 1]
      fbits == fw + 16
      lowzero == \A i \in 1..(n - 2) : w[i] = 0
  IN  IF E = EField(F)
        THEN IF frac = 0 /\ lowzero THEN Inf(s) ELSE NaN
      ELSE IF ~lowzero THEN Term(s, "bits", <<WithSign(w, 0)>>)
      ELSE IF E = 0 THEN Num(s, frac, EMin(F) - fbits)
      ELSE Num(s, Pow2(fbits) + frac, E - F.bias - fbits)

\* the word whose top limb carries sign s and exponent field E
TopWord(F, s, E) ==
  Tup([i \in 1..F.w |-> IF i = F.w THEN 32768 * s + E * Pow2(TopFrac(F))
                        ELSE 0])

\* reinterpret a value of format F as a word (exact values, Inf, NaN)
ToBits(F, v) ==
  IF IsNaN(v)
    THEN WAdd(TopWord(F, 0, EField(F)),
              Tup([i \in 1..F.w |-> IF i = F.w THEN Pow2(TopFrac(F) - 1) ELSE 0]))
  ELSE IF IsInf(v) THEN TopWord(F, v.s, EField(F))
  ELSE IF IsZero(v) THEN TopWord(F, v.s, 0)
  ELSE IF IsExact(v)
    THEN LET L == BitLen(Mant(v))
         IN  IF Top(v) >= EMin(F)
               THEN WAdd(WShl(WOf(F.w, Mant(v) - Pow2(L - 1)), F.p - L),
                         TopWord(F, v.s, Top(v) + F.bias))
             ELSE WAdd(WShl(WOf(F.w, Mant(v)), Expo(v) - (EMin(F) - F.p + 1)),
                       TopWord(F, v.s, 0))
  ELSE IF v.t[1] = "bits" THEN WithSign(v.t[2][1], v.s)
  ELSE <<>>

(* ------------------------------------------------------------------ *)
(* Floating-point arithmetic, round to nearest                        *)
(* ------------------------------------------------------------------ *)

FMul(F, a, b) ==
  LET s == Xor1(a.s, b.s)
  IN  IF IsNaN(a) \/ IsNaN(b) THEN NaN
      ELSE IF IsInf(a) \/ IsInf(b)
        THEN IF IsZero(a) \/ IsZero(b) THEN NaN ELSE Inf(s)
      ELSE IF IsZero(a) \/ IsZero(b) THEN Zero(s)
      ELSE IF IsExact(a) /\ IsExact(b)
              /\ BitLen(Mant(a)) + BitLen(Mant(b)) <= PLim(F)
        THEN Deliver(F, s, Mant(a) * Mant(b), Expo(a) + Expo(b))
      ELSE Term(s, "mul", <<a.t, b.t>>)

FDiv(F, a, b) ==
  LET s == Xor1(a.s, b.s)
  IN  IF IsNaN(a) \/ IsNaN(b) THEN NaN
      ELSE IF IsInf(a) THEN (IF IsInf(b) THEN NaN ELSE Inf(s))
      ELSE IF IsInf(b) THEN Zero(s)
      ELSE IF IsZero(b) THEN (IF IsZero(a) THEN NaN ELSE Inf(s))
      ELSE IF IsZero(a) THEN Zero(s)
      ELSE IF IsExact(a) /\ IsExact(b) /\ Mant(a) % Mant(b) = 0
        THEN Deliver(F, s, Mant(a) \div Mant(b), Expo(a) - Expo(b))
      ELSE Term(s, "div", <<a.t, b.t>>)

FSqrt(F, a) ==
  IF IsNaN(a) THEN NaN
  ELSE IF IsZero(a) THEN a
  ELSE IF a.s = 1 /\ (IsInf(a) \/ IsExact(a)) THEN NaN
  ELSE IF IsInf(a) THEN a
  ELSE IF IsExact(a) /\ Mant(a) = 1 /\ Expo(a) % 2 = 0
    THEN Num(0, 1, Expo(a) \div 2)
  ELSE Term(0, "sqrt", <<a.s, a.t>>)

\* the sum of two exact non-zero values
AddExact(F, a, b) ==
  LET e0 == IF Expo(a) < Expo(b) THEN Expo(a) ELSE Expo(b)
      fits == BitLen(Mant(a)) + Expo(a) - e0 <= 29
              /\ BitLen(Mant(b)) + Expo(b) - e0 <= 29
      A(ok) == (1 - 2 * a.s) * Mant(a) * Pow2(IF ok THEN Expo(a) - e0 ELSE 0)
      B(ok) == (1 - 2 * b.s) * Mant(b) * Pow2(IF ok THEN Expo(b) - e0 ELSE 0)
      absM(M) == IF M < 0 THEN -M ELSE M
      sum(ok, M) ==
        IF ok /\ M = 0 THEN Zero(0)
        ELSE IF ok /\ BitLen(absM(M)) <= PLim(F)
          THEN Deliver(F, IF M < 0 THEN 1 ELSE 0, absM(M), e0)
        ELSE Term(a.s, "add", <<a.t, Rel(b, a.s)>>)
      add(ok) == sum(ok, A(ok) + B(ok))
  IN  IF Top(a) - Top(b) >= F.p + 2 THEN a
      ELSE IF Top(b) - Top(a) >= F.p + 2 THEN b
      ELSE add(fits)

FAdd(F, a, b) ==
  IF IsNaN(a) \/ IsNaN(b) THEN NaN
  ELSE IF IsInf(a) THEN (IF IsInf(b) /\ a.s # b.s THEN NaN ELSE a)
  ELSE IF IsInf(b) THEN b
  ELSE IF IsZero(a) /\ IsZero(b) THEN (IF a.s = b.s THEN a ELSE Zero(0))
  ELSE IF IsZero(a) THEN b
  ELSE IF IsZero(b) THEN a
  ELSE IF IsExact(a) /\ IsExact(b) THEN AddExact(F, a, b)
  ELSE Term(a.s, "add", <<a.t, Rel(b, a.s)>>)

FSub(F, a, b) == FAdd(F, a, FNeg(b))

\* fused a + b * c, one rounding
FFma(F, a, b, c) ==
  LET acc(bc) ==
        IF IsNaN(a) \/ IsNaN(bc) \/ IsInf(a) \/ IsInf(bc)
           \/ IsExact(bc) \/ IsZero(a)
          THEN FAdd(F, a, bc)
        ELSE Term(a.s, "fma", <<a.t, Rel(bc, a.s)>>)
  IN  acc(FMul(F, b, c))

\* magnitude order of two exact non-zero values: -1, 0, 1
MagCmp(a, b) ==
  IF Top(a) # Top(b) THEN (IF Top(a) < Top(b) THEN -1 ELSE 1)
  ELSE LET e0 == IF Expo(a) < Expo(b) THEN Expo(a) ELSE Expo(b)
           A == Mant(a) * Pow2(Expo(a) - e0)
           B == Mant(b) * Pow2(Expo(b) - e0)
       IN  IF A < B THEN -1 ELSE IF A = B THEN 0 ELSE 1

\* order of two values that are exact or infinite: -1, 0, 1
Cmp(a, b) ==
  LET za == IsZero(a)
      zb == IsZero(b)
      mag == IF IsInf(a) THEN (IF IsInf(b) THEN 0 ELSE 1)
             ELSE IF IsInf(b) THEN -1
             ELSE MagCmp(a, b)
  IN  IF za /\ zb THEN 0
      ELSE IF za THEN (IF b.s = 1 THEN 1 ELSE -1)
      ELSE IF zb THEN (IF a.s = 1 THEN -1 ELSE 1)
      ELSE IF a.s # b.s THEN (IF a.s = 1 THEN -1 ELSE 1)
      ELSE IF a.s = 1 THEN -mag ELSE mag

Ordered(a, b) == ~IsNaN(a) /\ ~IsNaN(b)
FLt(a, b) == Ordered(a, b) /\ Cmp(a, b) < 0
FLe(a, b) == Ordered(a, b) /\ Cmp(a, b) <= 0
FGt(a, b) == Ordered(a, b) /\ Cmp(a, b) > 0
FGe(a, b) == Ordered(a, b) /\ Cmp(a, b) >= 0
FEq(a, b) == Ordered(a, b) /\ Cmp(a, b) = 0

\* an operation the model does not open (polynomial macro, table lookup,
\* special instruction): NaN in, NaN out, otherwise a rounded term
Opq(name, args) ==
  IF \E i \in DOMAIN args : IsNaN(args[i]) THEN NaN
  ELSE Term(0, name, args)

\* exponent of the leading bit of a finite value given by its bits or exactly
TopE(F, v) ==
  IF IsExact(v) THEN Top(v)
  ELSE ((v.t[2][1][F.w] % 32768) \div Pow2(TopFrac(F))) - F.bias

\* fma (Shift, x, c) - Shift with Shift = 1.5 * 2^(p-1): the product x * c
\* rounded to the nearest integer, ties to even; +0 when it rounds to zero
MagicRound(F, x, c) ==
  LET s == Xor1(x.s, c.s)
  IN  IF IsNaN(x) THEN NaN
      ELSE IF IsInf(x) THEN Inf(s)
      ELSE IF IsZero(x) THEN Zero(0)
      ELSE IF IsExact(x) /\ Top(x) + TopE(F, c) <= -3 THEN Zero(0)
      ELSE Term(s, "rint", <<x.t, c.t>>)

K64(h3, h2, h1, h0) == FromBits(F64, W64(h3, h2, h1, h0))
K32(h1, h0) == FromBits(F32, W32(h1, h0))
One(F) == Num(0, 1, 0)

(* ------------------------------------------------------------------ *)
(* math/v_exp.c : double-precision e^x                                *)
(* ------------------------------------------------------------------ *)

V_EXP_TABLE_BITS == 7

\* cmp: lanes needing the special case
ExpCmp(ex, w) ==
  IF ex
    THEN LET TinyBound == WOf(4, \H200)
             BigBound == WOf(4, \H408)
         IN  WGe(WSub(WShr(WithSign(w, 0), 52), TinyBound),
                 WSub(BigBound, TinyBound))
  ELSE LET Thres == Num(0, 11, 6)
       IN  FGt(FAbs(FromBits(F64, w)), Thres)

\* x as the fast path sees it: special lanes masked with 1 in exceptions mode
ExpMask(ex, w) ==
  IF ex /\ ExpCmp(ex, w) THEN ToBits(F64, One(F64)) ELSE w

\* s = 2^(n/N) from the bits of z: table entry plus shifted exponent bits.
\* Where the bits of z are known (z = Shift, Inf or the default NaN) and the
\* index is zero the entry is Tab[0] = asuint64 (1.0).
ExpScale(z) ==
  IF IsNaN(z) \/ IsInf(z) \/ IsExact(z)
    THEN LET u == ToBits(F64, z)
             e == WShl(u, 52 - V_EXP_TABLE_BITS)
             i == WAnd(u, WOf(4, Pow2(V_EXP_TABLE_BITS) - 1))
         IN  IF i = WZero(4) THEN FromBits(F64, WAdd(ToBits(F64, One(F64)), e))
             ELSE Term(0, "scale", <<i, e>>)
  ELSE Term(0, "scale", <<z.s, z.t>>)

ExpFast(x) ==
  LET C1 == K64(\H3FDF, \HFFFF, \HFFFF, \HFD43)
      C2 == K64(\H3FC5, \H5555, \HC75A, \HDBB2)
      C3 == K64(\H3FA5, \H5555, \HDA64, \H6206)
      InvLn2 == K64(\H4067, \H1547, \H652B, \H82FE)
      Ln2hi == K64(\H3F76, \H2E42, \HFEFA, \H39EF)
      Ln2lo == K64(\H3C0A, \HBC9E, \H3B39, \H803F)
      Shift == Num(0, 3, 51)
      s0 == [x |-> x]
      \* n = round(x/(ln2/N)); z holds n in its low bits
      s1(v) == v @@ [z |-> FFma(F64, Shift, v.x, InvLn2),
                     n |-> MagicRound(F64, v.x, InvLn2)]
      \* r = x - n*ln2/N
      s2(v) == v @@ [r |-> FFma(F64, FFma(F64, v.x, FNeg(Ln2hi), v.n),
                                FNeg(Ln2lo), v.n)]
      s3(v) == v @@ [r2 |-> FMul(F64, v.r, v.r)]
      \* y = r + r2 * (C1 + C2 r + C3 r2)
      s4(v) == v @@ [y |-> FFma(F64, v.r,
                                FFma(F64, FFma(F64, C1, C2, v.r), C3, v.r2),
                                v.r2)]
      \* s = 2^(n/N)
      s5(v) == v @@ [s |-> ExpScale(v.z)]
      out(v) == [red |-> [n |-> v.n, r |-> v.r, s |-> v.s], pol |-> v.y,
                 y |-> FFma(F64, v.s, v.y, v.s)]
  IN  out(s5(s4(s3(s2(s1(s0))))))

\* n <= 0 for the rounded quotient n
NLeZero(n) == ~IsNaN(n) /\ (IsZero(n) \/ n.s = 1)

\* the magnitude of x behind n = rint (x * InvLn2) against a bound k
AbsXLe(n, k) ==
  /\ IsTerm(n) /\ n.t[1] = "rint" /\ n.t[2][1][1] = "n"
  /\ MagCmp(Fin(0, n.t[2][1]), Num(0, k, 0)) <= 0

\* faulty variant: the offset b is left out of s2
ExpSplit_NoOffset(sbits, nle0) ==
  LET b == IF nle0 THEN W64(\H6000, 0, 0, 0) ELSE WZero(4)
  IN  [b |-> b, s1 |-> WSub(W64(\H7000, 0, 0, 0), b),
       s2 |-> WSub(sbits, W64(\H3010, 0, 0, 0))]

\* the bits of s1 and s2 for the bits of s: b = 0x6000000000000000 where
\* n <= 0, s1 = 0x7000000000000000 - b, s2 = s - 0x3010000000000000 + b
ExpSplit(sbits, nle0) ==
  LET b == IF nle0 THEN W64(\H6000, 0, 0, 0) ELSE WZero(4)
  IN  [b |-> b, s1 |-> WSub(W64(\H7000, 0, 0, 0), b),
       s2 |-> WAdd(WSub(sbits, W64(\H3010, 0, 0, 0)), b)]

\* cmp = |n| > 1280 * N for an integer n
ExpOverflow(n) ==
  (IF n < 0 THEN 0 - n ELSE n) > 1280 * Pow2(V_EXP_TABLE_BITS)

\* the handler of the fast build: 2^(n/N) split as s1 * s2, every lane.
\* cmp = |n| > 1280 * N holds from |x| = 888 on and fails up to |x| = 887.
\* Up to |x| = 704 neither s, s2 nor the sums leave the normal range, so the
\* product by the power of two s1 is exact and r0 is fma (s, y, s).
ExpSpecialFast(f) ==
  LET b(n) == ExpSplit(WZero(4), NLeZero(n)).b
      s1(n) == FromBits(F64, ExpSplit(WZero(4), NLeZero(n)).s1)
      s2(s, n) == IF IsExact(s)
                    THEN FromBits(F64,
                                  ExpSplit(ToBits(F64, s), NLeZero(n)).s2)
                  ELSE Term(s.s, "rescale", <<s.t, b(n)>>)
      scaled(y, t, t1) == FMul(F64, FFma(F64, t, y, t), t1)
      sel(n, r1, r0) ==
        IF IsNaN(n) THEN r0
        ELSE IF IsInf(n) THEN r1
        ELSE IF IsZero(n) \/ AbsXLe(n, 887) THEN r0
        ELSE IF ~AbsXLe(n, 888) /\ n.t[2][1][1] = "n" THEN r1
        ELSE Term(0, "sel", <<<<"absn>1280N", n.t>>, r1, r0>>)
      r1(t1) == FMul(F64, t1, t1)
      r0(s, y, n) == IF IsZero(n) \/ AbsXLe(n, 704) THEN FFma(F64, s, y, s)
                     ELSE scaled(y, s2(s, n), s1(n))
  IN  sel(f.red.n, r1(s1(f.red.n)), r0(f.red.s, f.pol, f.red.n))

(* ------------------------------------------------------------------ *)
(* math/v_logf.c : single-precision log                               *)
(* ------------------------------------------------------------------ *)

\* faulty variant: the comparison without the subtraction of Min
LogfCmp_NoWrap(w) == WGe(w, W32(\H7F80, 0))

LogfCmp(w) ==
  LET Min == W32(\H0080, 0)
      Max == W32(\H7F80, 0)
  IN  WGe(WSub(w, Min), WSub(Max, Min))

\* a two's-complement word below 2^31 in magnitude as an exact float
IntToF(w) ==
  IF SignBit(w) = 1 THEN Num(1, WVal(WSub(WZero(Len(w)), w)), 0)
  ELSE Num(0, WVal(w), 0)

\* faulty variant: a logical shift, the sign is not extended
AShr32_Logical(w, k) == WShr(w, k)

\* arithmetic shift right of a 32-bit word
AShr32(w, k) ==
  IF SignBit(w) = 1 THEN WNot(WShr(WNot(w), k)) ELSE WShr(w, k)

\* faulty variant: the offset is not added back to the mantissa bits
LogfReduce_NoOff(w) ==
  LET Mask == W32(\H007F, \HFFFF)
      Off == W32(\H3F2A, \HAAAB)
      t(u) == [n |-> AShr32(u, 23), u |-> WAnd(u, Mask)]
  IN  t(WSub(w, Off))

\* the integer reduction shared by logf, log2f and the SVE logf and log10f:
\* u -= Off; n = u >> 23 (sign-extending); u &= Mask; u += Off
LogfReduce(w) ==
  LET Mask == W32(\H007F, \HFFFF)
      Off == W32(\H3F2A, \HAAAB)
      t(u) == [n |-> AShr32(u, 23), u |-> WAdd(WAnd(u, Mask), Off)]
  IN  t(WSub(w, Off))

LogfFast(w) ==
  LET P7 == K32(\HBE1F, \H39BE)
      P6 == K32(\H3E2D, \H4D51)
      P5 == K32(\HBE27, \HCC9A)
      P4 == K32(\H3E4B, \H09A4)
      P3 == K32(\HBE80, \H0C3E)
      P2 == K32(\H3EAA, \HAEBE)
      P1 == K32(\HBEFF, \HFFE4)
      Ln2 == K32(\H3F31, \H7218)
      s0 == [i |-> LogfReduce(w)]
      \* x = 2^n * (1+r), where 2/3 < 1+r < 4/3
      s1(v) == v @@ [n |-> IntToF(v.i.n), u |-> v.i.u]
      s2(v) == v @@ [r |-> FSub(F32, FromBits(F32, v.u), One(F32))]
      s3(v) == v @@ [r2 |-> FMul(F32, v.r, v.r)]
      \* y = log(1+r) + n*ln2, r2 * (P1 + P2 r + r2 * (P3 + P4 r + r2 * ...))
      s4(v) == v @@ [q |-> FFma(F32, FFma(F32, P3, P4, v.r),
                                FFma(F32, FFma(F32, P5, P6, v.r), P7, v.r2),
                                v.r2)]
      s5(v) == v @@ [y2 |-> FFma(F32, FFma(F32, P1, P2, v.r), v.q, v.r2)]
      out(v) == [red |-> [n |-> v.n, u |-> v.u, r |-> v.r], pol |-> v.y2,
                 y |-> FFma(F32, FFma(F32, v.r, Ln2, v.n), v.y2, v.r2)]
  IN  out(s5(s4(s3(s2(s1(s0))))))

\* a selection whose predicate the model cannot decide
SelV(cond, a, b) ==
  IF cond = <<"T">> THEN a
  ELSE IF cond = <<"F">> THEN b
  ELSE IF IsNaN(a) /\ IsNaN(b) THEN NaN
  ELSE IF a.c = "fin" /\ b.c = "fin"
    THEN Term(a.s, "sel", <<cond, a.t, Rel(b, a.s)>>)
  ELSE Term(0, "sel", <<cond, a, b>>)

Bool(b) == IF b THEN <<"T">> ELSE <<"F">>

\* flip the sign bit where sbit = 1
XorSign(v, sbit) == IF IsNaN(v) \/ sbit = 0 THEN v ELSE FNeg(v)

(* ------------------------------------------------------------------ *)
(* pl/math/v_erfc_4u.c : double-precision erfc                        *)
(* ------------------------------------------------------------------ *)

ERFC_NUM_INTERVALS == 20

ErfcAtop(w) == WAnd(WShr(w, 52), WOf(4, \H7FF))

ErfcCmp(w) == WGe(WSub(ErfcAtop(w), WOf(4, \H3CD)), WOf(4, \H7FF - \H3CD))

ErfcOutOfBounds(w) == WGe(ErfcAtop(w), WOf(4, \H404))

\* fac: 0 if the sign bit is clear, 2 otherwise
ErfcFac(w) == FromBits(F64, WShl(WShr(w, 63), 62))

\* faulty variant: the lanes' special predicate is not looked at
ErfcShort_NoCmp(xs) == \A l \in DOMAIN xs : ErfcOutOfBounds(xs[l])

\* the short path is taken: all lanes out of bounds and some lane not special
ErfcShort(xs) ==
  /\ \A l \in DOMAIN xs : ErfcOutOfBounds(xs[l])
  /\ \E l \in DOMAIN xs : ~ErfcCmp(xs[l])

\* interval index from the exponent of (|x| + 1)^4, before and after the clamp
ErfcRawIndex(w) ==
  LET sq(v) == FMul(F64, v, v)
      xp1 == FAdd(F64, FAbs(FromBits(F64, w)), One(F64))
      xp4 == sq(sq(xp1))
  IN  WSub(WShr(ToBits(F64, xp4), 52), WOf(4, 1023))

\* faulty variant: the index is not clamped
ErfcClamp_None(i) == i

ErfcClamp(i) ==
  IF WLe(i, WOf(4, ERFC_NUM_INTERVALS)) THEN i ELSE WOf(4, ERFC_NUM_INTERVALS)

ErfcIndex(w) == ErfcClamp(ErfcRawIndex(w))

\* the degree of the interval polynomials (HORNER_12)
ERFC_POLY_ORDER == 12

\* faulty variant: the loop runs once for each interval up to i
RECURSIVE LookupFrom_ByIndex(_, _)
LookupFrom_ByIndex(i, j) ==
  IF j > WVal(i) THEN <<>>
  ELSE <<Term(0, "PX", <<i, j>>)>> \o LookupFrom_ByIndex(i, j + 1)

\* lookup, from iteration j of its loop on:
\* for (j = 0; j <= ERFC_POLY_ORDER; ++j) e.P[j] = PX[i][j]
RECURSIVE LookupFrom(_, _)
LookupFrom(i, j) ==
  IF j > ERFC_POLY_ORDER THEN <<>>
  ELSE <<Term(0, "PX", <<i, j>>)>> \o LookupFrom(i, j + 1)

\* the coefficients of the i-th polynomial
lookup(i) == LookupFrom(i, 0)

ErfcFast(w) ==
  LET s0 == [a |-> FAbs(FromBits(F64, w)), i |-> ErfcIndex(w)]
      xi(i) == IF i = WZero(4) THEN Zero(0) ELSE Term(0, "xint", <<i>>)
      s1(v) == v @@ [z |-> FSub(F64, v.a, xi(v.i))]
      \* P[ERFC_NUM_INTERVALS] = 0: the polynomial of the last interval is zero
      s2(v) == v @@ [p |-> IF v.i = WOf(4, ERFC_NUM_INTERVALS)
                             THEN FMul(F64, v.z, Zero(0))
                           ELSE Opq("HORNER_12",
                                    <<v.z, Term(0, "P", lookup(v.i))>>)]
      s3(v) == v @@ [e |-> Opq("v_eval_gauss", <<v.a>>),
                     ps |-> XorSign(v.p, SignBit(w))]
      out(v) == [red |-> [i |-> v.i, z |-> v.z], pol |-> v.p,
                 y |-> FFma(F64, ErfcFac(w), v.ps, v.e)]
  IN  out(s3(s2(s1(s0))))

(* ------------------------------------------------------------------ *)
(* pl/math/v_acos_2u.c : double-precision acos                        *)
(* ------------------------------------------------------------------ *)

\* faulty variant: only NaN is special
AcosSpecial_NaNOnly(w) == WGt(WithSign(w, 0), W64(\H7FF0, 0, 0, 0))

\* exceptions build only: a single comparison for One, Small and QNaN
AcosSpecial(w) ==
  LET Small == W64(\H3E50, 0, 0, 0)
      Oneu == W64(\H3FF0, 0, 0, 0)
  IN  WGt(WSub(WithSign(w, 0), Small), WSub(Oneu, Small))

\* faulty variant: the offset Pi of the negative half is left out
AcosAddMul_NoOff(sign, a_le_half) ==
  [mul |-> IF a_le_half THEN Num(1, 1, 0) ELSE Num(0, 1, 1),
   add |-> IF a_le_half THEN K64(\H3FF9, \H21FB, \H5444, \H2D18)
           ELSE Zero(0)]

\* off = sign ? Pi : 0; mul = a_le_half ? -One : Two;
\* add = a_le_half ? PiOver2 : off
AcosAddMul(sign, a_le_half) ==
  [mul |-> IF a_le_half THEN Num(1, 1, 0) ELSE Num(0, 1, 1),
   add |-> IF a_le_half THEN K64(\H3FF9, \H21FB, \H5444, \H2D18)
           ELSE IF sign THEN K64(\H4009, \H21FB, \H5444, \H2D18)
           ELSE Zero(0)]

AcosFast(ex, w) ==
  LET x == FromBits(F64, w)
      ia == WithSign(w, 0)
      Half == Num(0, 1, -1)
      MOne == Num(1, 1, 0)
      ix == IF ~ex /\ FLt(x, MOne) THEN WZero(4) ELSE w
      s0 == [ax |-> FromBits(F64, ia),
             a_le_half |-> WLe(ia, W64(\H3FE0, 0, 0, 0))]
      s1(v) == v @@ [z2 |-> IF v.a_le_half THEN FMul(F64, x, x)
                            ELSE FFma(F64, Half, FNeg(Half), v.ax)]
      s2(v) == v @@ [z |-> IF v.a_le_half THEN v.ax ELSE FSqrt(F64, v.z2)]
      s3(v) == v @@ [p |-> FFma(F64, v.z, FMul(F64, v.z, v.z2),
                                Opq("ESTRIN_11", <<v.z2>>))]
      s4(v) == v @@ [y |-> IF IsNaN(v.p) THEN NaN
                           ELSE [FAbs(v.p) EXCEPT !.s = SignBit(ix)]]
      s5(v) == v @@ AcosAddMul(FLt(x, Zero(0)), v.a_le_half)
      out(v) == [red |-> [z2 |-> v.z2, z |-> v.z, add |-> v.add,
                          mul |-> v.mul],
                 pol |-> v.p, y |-> FFma(F64, v.add, v.mul, v.y)]
  IN  out(s5(s4(s3(s2(s1(s0))))))

(* ------------------------------------------------------------------ *)
(* pl/math/v_atan2_3u.c : double-precision atan2                      *)
(* ------------------------------------------------------------------ *)

\* faulty variant: without the subtraction of one, zero is not caught
zeroinfnan_NoZero(i) == WGe(WShl(i, 1), WShl(W64(\H7FF0, 0, 0, 0), 1))

\* 1 if the input is the bit representation of 0, infinity or nan
zeroinfnan(i) ==
  LET INFINITY == W64(\H7FF0, 0, 0, 0)
      one == WOf(4, 1)
  IN  WGe(WSub(WShl(i, 1), one), WSub(WShl(INFINITY, 1), one))

Atan2Special(wy, wx) == zeroinfnan(wx) \/ zeroinfnan(wy)

\* faulty variant: the quadrant of |y| > |x| is not counted
Atan2Shift_NoSwap(pred_xlt0, pred_aygtax) ==
  FMul(F64, IF pred_xlt0 THEN Num(1, 1, 1) ELSE Zero(0),
       K64(\H3FF9, \H21FB, \H5444, \H2D18))

\* shift = (pred_xlt0 ? -2.0 : 0.0), plus 1.0 where pred_aygtax, times PiOver2
Atan2Shift(pred_xlt0, pred_aygtax) ==
  LET PiOver2 == K64(\H3FF9, \H21FB, \H5444, \H2D18)
      shift0 == IF pred_xlt0 THEN Num(1, 1, 1) ELSE Zero(0)
      shift1 == IF pred_aygtax THEN FAdd(F64, shift0, One(F64)) ELSE shift0
  IN  FMul(F64, shift1, PiOver2)

Atan2Fast(wy, wx) ==
  LET x == FromBits(F64, wx)
      y == FromBits(F64, wy)
      sign_xy == Xor1(SignBit(wx), SignBit(wy))
      s0 == [ax |-> FAbs(x), ay |-> FAbs(y), pred_xlt0 |-> FLt(x, Zero(0))]
      s1(v) == v @@ [pred_aygtax |-> FGt(v.ay, v.ax)]
      s2(v) == v @@ [n |-> IF v.pred_aygtax THEN FNeg(v.ax) ELSE v.ay,
                     d |-> IF v.pred_aygtax THEN v.ay ELSE v.ax]
      s3(v) == v @@ [z |-> FDiv(F64, v.n, v.d)]
      s4(v) == v @@ [shift |-> Atan2Shift(v.pred_xlt0, v.pred_aygtax)]
      s5(v) == v @@ [ret |-> Opq("eval_poly", <<v.z, v.shift>>)]
      out(v) == [red |-> [z |-> v.z, shift |-> v.shift, n |-> v.n, d |-> v.d],
                 pol |-> v.ret, y |-> XorSign(v.ret, sign_xy)]
  IN  out(s5(s4(s3(s2(s1(s0))))))

(* ------------------------------------------------------------------ *)
(* pl/math/v_log1p_2u5.c : double-precision log1p                     *)
(* ------------------------------------------------------------------ *)

Log1pSpecial(w) ==
  \/ WGe(WithSign(w, 0), W64(\H7FF0, 0, 0, 0))
  \/ WGe(w, W64(\HBFF0, 0, 0, 0))
  \/ w = W64(\H8000, 0, 0, 0)

\* x as the fast path sees it: special lanes zeroed in exceptions mode
Log1pMask(ex, w) == IF ex /\ Log1pSpecial(w) THEN WZero(4) ELSE w

Log1pFast(w) ==
  LET x == FromBits(F64, w)
      Ln2Hi == K64(\H3FE6, \H2E42, \HFEFA, \H3800)
      Ln2Lo == K64(\H3D2E, \HF357, \H93C7, \H6730)
      HfRt2Top == W64(\H3FE6, \HA09E, 0, 0)
      OneMHfRt2Top == W64(\H0009, \H5F62, 0, 0)
      OneTop12 == WOf(4, \H3FF)
      BottomMask == W64(0, 0, \HFFFF, \HFFFF)
      s0 == [m |-> FAdd(F64, x, One(F64))]
      s1(v) == v @@ [sym |-> IsTerm(v.m),
                     mi |-> IF IsTerm(v.m) THEN WZero(4)
                            ELSE ToBits(F64, v.m)]
      s2(v) == v @@ [u |-> WAdd(v.mi, OneMHfRt2Top)]
      s3(v) == v @@ [ki |-> WSub(WShr(v.u, 52), OneTop12),
                     utop |-> WAdd(WAnd(v.u, W64(\H000F, \HFFFF, 0, 0)),
                                   HfRt2Top)]
      s4(v) == v @@ [k |-> IF v.sym THEN Opq("k", <<v.m>>) ELSE IntToF(v.ki),
                     u_red |-> WOr(v.utop, WAnd(v.mi, BottomMask))]
      s5(v) == v @@ [f |-> IF v.sym THEN Opq("f", <<v.m>>)
                           ELSE FSub(F64, FromBits(F64, v.u_red), One(F64)),
                     cm |-> FDiv(F64,
                                 FSub(F64, x, FSub(F64, v.m, One(F64))), v.m)]
      s6(v) == v @@ [p |-> Opq("ESTRIN_18", <<v.f>>),
                     ylo |-> FFma(F64, v.cm, v.k, Ln2Lo),
                     yhi |-> FFma(F64, v.f, v.k, Ln2Hi)]
      out(v) == [red |-> [k |-> v.k, f |-> v.f, cm |-> v.cm], pol |-> v.p,
                 y |-> FFma(F64, FAdd(F64, v.ylo, v.yhi),
                            FMul(F64, v.f, v.f), v.p)]
  IN  out(s6(s5(s4(s3(s2(s1(s0)))))))

(* ------------------------------------------------------------------ *)
(* pl/math/v_expm1_2u5.c : double-precision expm1                     *)
(* ------------------------------------------------------------------ *)

\* faulty variant: the bound of the fast build is one pattern higher
Expm1Special_Late(ex, w) ==
  LET ax == WithSign(w, 0)
  IN  WGe(ax, W64(\H4086, \H2B7D, \H369A, \H5AAA))
      \/ w = W64(\H8000, 0, 0, 0)

Expm1Special(ex, w) ==
  LET ax == WithSign(w, 0)
      BigBound == W64(\H4086, \H2B7D, \H369A, \H5AA9)
      TinyBound == W64(\H3CC0, 0, 0, 0)
      SignMask == W64(\H8000, 0, 0, 0)
  IN  IF ex THEN WGe(ax, BigBound) \/ WLe(ax, TinyBound)
      ELSE WGe(ax, BigBound) \/ w = SignMask

\* faulty variant: the exponent bias is not added, so i = 0 gives t = +0
Pow2I_NoBias(n) ==
  IF IsNaN(n) \/ IsZero(n) THEN Zero(0)
  ELSE IF IsInf(n) THEN (IF n.s = 0 THEN Num(0, 1, -1) ELSE Num(0, 1, 0))
  ELSE Term(0, "pow2", <<n.s, n.t>>)

\* t = 2^i from i = the integer conversion of n, by exponent arithmetic:
\* a NaN converts to 0, +Inf saturates and wraps to 0.5, -Inf wraps to 1
Pow2I(n) ==
  IF IsNaN(n) \/ IsZero(n) THEN Num(0, 1, 0)
  ELSE IF IsInf(n) THEN (IF n.s = 0 THEN Num(0, 1, -1) ELSE Num(0, 1, 0))
  ELSE Term(0, "pow2", <<n.s, n.t>>)

\* the reduction, polynomial and reassembly shared by expm1 and sinh
Expm1Core(x) ==
  LET invln2 == K64(\H3FF7, \H1547, \H652B, \H82FE)
      ln2_hi == K64(\H3FE6, \H2E42, \HFEFA, \H39EF)
      ln2_lo == K64(\H3C7A, \HBC9E, \H3B39, \H803F)
      s0 == [n |-> MagicRound(F64, x, invln2)]
      s1(v) == v @@ [f |-> FFma(F64, FFma(F64, x, v.n, FNeg(ln2_hi)),
                                v.n, FNeg(ln2_lo))]
      s2(v) == v @@ [f2 |-> FMul(F64, v.f, v.f)]
      s3(v) == v @@ [p |-> FFma(F64, v.f, v.f2, Opq("ESTRIN_10", <<v.f>>)),
                     t |-> Pow2I(v.n)]
      out(v) == [red |-> [n |-> v.n, f |-> v.f, t |-> v.t], pol |-> v.p,
                 y |-> FFma(F64, FSub(F64, v.t, One(F64)), v.p, v.t)]
  IN  out(s3(s2(s1(s0))))

Expm1Fast(w) == Expm1Core(FromBits(F64, w))

(* ------------------------------------------------------------------ *)
(* pl/math/v_expm1f_1u6.c : single-precision expm1                    *)
(* ------------------------------------------------------------------ *)

\* faulty variant: SpecialBound is the overflow limit that sinhf uses
Expm1fSpecial_OFlow(ex, w) ==
  WGe(WithSign(w, 0), W32(\H42B1, \H7218)) \/ w = W32(\H8000, 0)

Expm1fSpecial(ex, w) ==
  LET ax == WithSign(w, 0)
      SpecialBound == W32(\H42AF, \H5E20)
      TinyBound == W32(\H3400, 0)
  IN  IF ex THEN WGe(ax, SpecialBound) \/ w = W32(\H8000, 0)
                 \/ WLt(ax, TinyBound)
      ELSE WGe(ax, SpecialBound) \/ w = W32(\H8000, 0)

Expm1fFast(w) ==
  LET x == FromBits(F32, w)
      InvLn2 == K32(\H3FB8, \HAA3B)
      MLn2hi == K32(\HBF31, \H7200)
      MLn2lo == K32(\HB5BF, \HBE8E)
      C(i) == Term(0, "__expm1f_poly", <<i>>)
      \* i = round(x / ln2), f = x - i * ln2
      s0 == [j |-> MagicRound(F32, x, InvLn2)]
      s1(v) == v @@ [f |-> FFma(F32, FFma(F32, x, v.j, MLn2hi), v.j, MLn2lo)]
      \* expm1(f) ~= f + f^2 * P(f)
      s2(v) == v @@ [p3 |-> FFma(F32, C(2), FFma(F32, C(3), C(4), v.f), v.f)]
      s3(v) == v @@ [p1 |-> FFma(F32, C(0), FFma(F32, C(1), v.p3, v.f), v.f)]
      s4(v) == v @@ [p |-> FFma(F32, v.f, FMul(F32, v.f, v.f), v.p1),
                     t |-> Pow2I(v.j)]
      \* expm1(x) ~= p * t + (t - 1)
      out(v) == [red |-> [n |-> v.j, f |-> v.f, t |-> v.t], pol |-> v.p,
                 y |-> FFma(F32, FSub(F32, v.t, One(F32)), v.p, v.t)]
  IN  out(s4(s3(s2(s1(s0)))))

(* ------------------------------------------------------------------ *)
(* pl/math/v_sinh_3u.c : double-precision sinh                        *)
(* ------------------------------------------------------------------ *)

SinhSpecial(ex, w) ==
  LET iax == WithSign(w, 0)
      BigBound == W64(\H4080, 0, 0, 0)
      TinyBound == W64(\H3E50, 0, 0, 0)
  IN  IF ex THEN WGe(WSub(iax, TinyBound), WSub(BigBound, TinyBound))
      ELSE WGe(iax, BigBound)

\* faulty variant: the sign of x is dropped from halfsign
SinhFast_NoSign(w) ==
  LET s0 == [t |-> Expm1Core(FromBits(F64, WithSign(w, 0)))]
      s1(v) == v @@ [h |-> FAdd(F64, v.t.y,
                                FDiv(F64, v.t.y, FAdd(F64, v.t.y, One(F64))))]
      out(v) == [red |-> v.t.red, pol |-> v.t.y,
                 y |-> FMul(F64, v.h, Num(0, 1, -1))]
  IN  out(s1(s0))

SinhFast(w) ==
  LET Half == W64(\H3FE0, 0, 0, 0)
      iax == WithSign(w, 0)
      ax == FromBits(F64, iax)
      sign == WAnd(w, W64(\H8000, 0, 0, 0))
      halfsign == FromBits(F64, WOr(sign, Half))
      \* t = expm1(|x|)
      s0 == [t |-> Expm1Core(ax)]
      \* (t + t / (t + 1)) * copysign (0.5, x)
      s1(v) == v @@ [h |-> FAdd(F64, v.t.y,
                                FDiv(F64, v.t.y, FAdd(F64, v.t.y, One(F64))))]
      out(v) == [red |-> v.t.red, pol |-> v.t.y,
                 y |-> FMul(F64, v.h, halfsign)]
  IN  out(s1(s0))

(* ------------------------------------------------------------------ *)
(* pl/math/v_sinhf_2u3.c : single-precision sinh                      *)
(* ------------------------------------------------------------------ *)

\* special = iax >= Expm1OFlowLimit
SinhfSpecial(w) ==
  LET iax == WithSign(w, 0)
      Expm1OFlowLimit == W32(\H42B1, \H7218)
  IN  WGe(iax, Expm1OFlowLimit)

\* the lane of the expm1f kernel that sinhf calls: its argument is ax, the
\* input with the sign cleared, and it takes expm1f's scalar fallback when
\* expm1f's own classifier flags it
SinhfCall(ex, w) ==
  LET ax == WithSign(w, 0)
  IN  [ex |-> ex, sinhf |-> SinhfSpecial(w), ax |-> ax,
       expm1f |-> Expm1fSpecial(ex, ax)]

(* ------------------------------------------------------------------ *)
(* pl/math/v_tan_3u5.c : double-precision tan                         *)
(* ------------------------------------------------------------------ *)

TanSpecial(ex, w) ==
  LET iax == WithSign(w, 0)
      RangeVal == W64(\H4160, 0, 0, 0)
      TinyBound == W64(\H3E50, 0, 0, 0)
  IN  IF ex THEN WGt(WSub(iax, TinyBound), WSub(RangeVal, TinyBound))
      ELSE WGt(iax, RangeVal)

\* the constant c of a quotient rint (x * c) between m * 2^e and
\* (m + 1) * 2^e: exactly, or by the leading 21 bits of a double's pattern
RintConst(ct) ==
  IF ct[1] = "n" THEN [m |-> ct[2][1], e |-> ct[2][2], up |-> 0]
  ELSE LET w == ct[2][1]
       IN  [m |-> Pow2(20) + (w[4] % 16) * Limb + w[3],
            e |-> ((w[4] % 32768) \div 16) - F64.bias - 20, up |-> 1]

\* the magnitude of q = rint (x * c) where x is exact and short and every
\* product between the bounds of c rounds to the same integer, away from a tie
RintParts(q) ==
  LET x == q.t[2][1][2]
      c == RintConst(q.t[2][2])
      sh == 0 - (x[2] + c.e)
      ok == sh >= 1 /\ sh <= 30 /\ x[1] <= Pow2(30) \div (c.m + 1)
      lo == x[1] * c.m + Pow2(sh - 1)
      hi == x[1] * (c.m + c.up) + Pow2(sh - 1)
  IN  [known |-> ok /\ lo \div Pow2(sh) = hi \div Pow2(sh)
                    /\ lo % Pow2(sh) # 0,
       abs |-> IF ok THEN lo \div Pow2(sh) ELSE 0]

RintKnown(q) ==
  /\ IsTerm(q) /\ q.t[1] = "rint" /\ q.t[2][1][1] = "n"
  /\ q.t[2][2][1] \in {"n", "bits"}
  /\ RintParts(q).known

\* faulty variant: the parity is taken the wrong way round
EvenQ_Flipped(q) ==
  IF IsNaN(q) \/ IsZero(q) THEN <<"F">>
  ELSE IF IsInf(q) THEN Bool(q.s = 0)
  ELSE IF IsExact(q) /\ Expo(q) >= 0 THEN Bool(Expo(q) = 0)
  ELSE IF RintKnown(q) THEN Bool(RintParts(q).abs % 2 = 1)
  ELSE <<"odd", q.t>>

\* (qi & 1) == 0 for the integer conversion of q
EvenQ(q) ==
  IF IsNaN(q) \/ IsZero(q) THEN <<"T">>
  ELSE IF IsInf(q) THEN Bool(q.s = 1)
  ELSE IF IsExact(q) /\ Expo(q) >= 0 THEN Bool(Expo(q) > 0)
  ELSE IF RintKnown(q) THEN Bool(RintParts(q).abs % 2 = 0)
  ELSE <<"even", q.t>>

TanFast(w) ==
  LET x == FromBits(F64, w)
      TwoOverPi == K64(\H3FE4, \H5F30, \H6DC9, \HC883)
      MHalfPiHi == Term(1, "neg_half_pi_hi", <<>>)
      MHalfPiLo == Term(1, "neg_half_pi_lo", <<>>)
      s0 == [q |-> MagicRound(F64, x, TwoOverPi)]
      s1(v) == v @@ [r |-> FMul(F64,
                                FFma(F64, FFma(F64, x, v.q, MHalfPiHi),
                                     v.q, MHalfPiLo),
                                Num(0, 1, -1))]
      s2(v) == v @@ [r2 |-> FMul(F64, v.r, v.r)]
      s3(v) == v @@ [p1 |-> FFma(F64, Term(0, "C0", <<>>),
                                 Opq("ESTRIN_7_", <<v.r2>>), v.r2)]
      s4(v) == v @@ [p |-> FFma(F64, v.r, v.r2, FMul(F64, v.p1, v.r))]
      s5(v) == v @@ [n |-> FFma(F64, Num(1, 1, 0), v.p, v.p),
                     d |-> FMul(F64, v.p, Num(0, 1, 1)),
                     use_recip |-> EvenQ(v.q)]
      \* the two selections share their predicate, so the quotient of the
      \* selections is the selection of the quotients
      out(v) == [red |-> [q |-> v.q, r |-> v.r], pol |-> v.p,
                 y |-> SelV(v.use_recip, FDiv(F64, FNeg(v.d), v.n),
                            FDiv(F64, v.n, v.d))]
  IN  out(s5(s4(s3(s2(s1(s0))))))

(* ------------------------------------------------------------------ *)
(* pl/math/v_tanf_3u5.c : single-precision tan                        *)
(* ------------------------------------------------------------------ *)

TanfSpecial(ex, w) ==
  LET iax == WithSign(w, 0)
      RangeVal == W32(\H4700, 0)
      TinyBound == W32(\H3000, 0)
  IN  IF ex THEN WGe(WSub(iax, TinyBound), WSub(RangeVal, TinyBound))
      ELSE WGe(iax, RangeVal)

\* faulty variant: the result of the reduction is kept for x = -0
ZeroFix_None(x, y) == y

\* y = vbslq_f32 (x == v_f32 (-0.0), x, y): the comparison holds for +0 and -0
ZeroFix(x, y) == IF FEq(x, Zero(1)) THEN x ELSE y

\* x as the fast path sees it: special lanes fixed to 1 in exceptions mode
TanfMask(ex, w) ==
  IF ex /\ TanfSpecial(ex, w) THEN ToBits(F32, One(F32)) ELSE w

TanfFast(ex, w) ==
  LET x == FromBits(F32, w)
      NegPio2_1 == K32(\HBFC9, \H0FDB)
      NegPio2_2 == K32(\H333B, \HBD2E)
      NegPio2_3 == K32(\H26F7, \H2CED)
      InvPio2 == K32(\H3F22, \HF983)
      s0 == [n |-> MagicRound(F32, x, InvPio2)]
      s1(v) == v @@ [even |-> EvenQ(v.n),
                     r |-> FFma(F32,
                                FFma(F32, FFma(F32, x, NegPio2_1, v.n),
                                     NegPio2_2, v.n),
                                NegPio2_3, v.n)]
      s2(v) == v @@ [pred_alt |-> IF v.even = <<"T">> THEN <<"F">>
                                  ELSE IF v.even = <<"F">> THEN <<"T">>
                                  ELSE <<"odd", v.n.t>>,
                     z2 |-> FMul(F32, v.r, v.r)]
      \* eval_poly: tiny z2 is fixed to 0 before z4 in exceptions mode
      s3(v) == v @@ [p |-> Opq(IF ex THEN "ESTRIN_5_fixed" ELSE "ESTRIN_5",
                               <<v.z2>>)]
      \* z is -r where pred_alt holds and r elsewhere; the selections on
      \* pred_alt are carried to the result
      s4(v) == v @@ [ya |-> FFma(F32, FNeg(v.r),
                                 FMul(F32, FNeg(v.r), v.z2), v.p),
                     yr |-> FFma(F32, v.r, FMul(F32, v.r, v.z2), v.p)]
      s5(v) == v @@ [y |-> SelV(v.pred_alt, FDiv(F32, One(F32), v.ya), v.yr)]
      out(v) == [red |-> [n |-> v.n, r |-> v.r], pol |-> v.p,
                 y |-> ZeroFix(x, v.y)]
  IN  out(s5(s4(s3(s2(s1(s0))))))

(* ------------------------------------------------------------------ *)
(* pl/math/sv_sin_3u.c : SVE double-precision sin                     *)
(* ------------------------------------------------------------------ *)

\* the contents of a lane that the governing predicate leaves inactive
Unspec == [c |-> "unspec", s |-> 0, t |-> <<>>]

SvSinCmp(pg, w) == pg /\ WGe(WithSign(w, 0), W64(\H4160, 0, 0, 0))

\* FTSSEL: r or 1.0 by bit 0 of q, negated by bit 1; decided for q = Shift
SvTssel(r, q) ==
  IF q = Num(0, 3, 51) THEN r ELSE Opq("svtssel", <<r, q>>)

SvSinFast(pg, w) ==
  LET InvPio2 == K64(\H3FE4, \H5F30, \H6DC9, \HC882)
      NegPio2_1 == K64(\HBFF9, \H21FB, \H5000, 0)
      NegPio2_2 == K64(\HBE51, \H10B4, \H6000, 0)
      NegPio2_3 == K64(\HBC91, \HA626, \H3314, \H5C07)
      Shift == Num(0, 3, 51)
      ra == FromBits(F64, WithSign(w, 0))
      sign == SignBit(w)
      s0 == [q |-> FFma(F64, Shift, ra, InvPio2),
             n |-> MagicRound(F64, ra, InvPio2)]
      s1(v) == v @@ [r |-> FFma(F64,
                                FFma(F64, FFma(F64, ra, v.n, NegPio2_1),
                                     v.n, NegPio2_2),
                                v.n, NegPio2_3)]
      s2(v) == v @@ [f |-> SvTssel(v.r, v.q),
                     r2 |-> Opq("svtsmul", <<v.r, v.q>>)]
      s3(v) == v @@ [y0 |-> Opq("svtmad", <<v.r2>>)]
      out(v) == [red |-> [n |-> v.n, r |-> v.r], pol |-> v.y0,
                 y |-> XorSign(FMul(F64, v.f, v.y0), sign)]
  IN  IF pg THEN out(s3(s2(s1(s0))))
      ELSE [red |-> [n |-> Unspec, r |-> Unspec], pol |-> Unspec,
            y |-> Unspec]

(* ------------------------------------------------------------------ *)
(* pl/math/sv_tanf_3u5.c : SVE single-precision tan                   *)
(* ------------------------------------------------------------------ *)

\* faulty variant: the comparison is not governed by pg
SvTanfCmp_NoPg(pg, w) == FGe(FAbs(FromBits(F32, w)), Num(0, 1, 15))

\* cmp = svacge (pg, x, RangeVal): |x| >= 2^15 in active lanes, false for NaN
SvTanfCmp(pg, w) == pg /\ FGe(FAbs(FromBits(F32, w)), Num(0, 1, 15))

SvTanfFast(pg, w) ==
  LET x == FromBits(F32, w)
      NegPio2_1 == K32(\HBFC9, \H0FDB)
      NegPio2_2 == K32(\H333B, \HBD2E)
      NegPio2_3 == K32(\H26F7, \H2CED)
      InvPio2 == K32(\H3F22, \HF983)
      s0 == [n |-> MagicRound(F32, x, InvPio2)]
      s1(v) == v @@ [even |-> EvenQ(v.n),
                     r |-> FFma(F32,
                                FFma(F32, FFma(F32, x, v.n, NegPio2_1),
                                     v.n, NegPio2_2),
                                v.n, NegPio2_3)]
      s2(v) == v @@ [pred_alt |-> IF v.even = <<"T">> THEN <<"F">>
                                  ELSE IF v.even = <<"F">> THEN <<"T">>
                                  ELSE <<"odd", v.n.t>>,
                     z2 |-> FMul(F32, v.r, v.r)]
      s3(v) == v @@ [p |-> Opq("ESTRIN_5", <<v.z2>>)]
      \* z is -r where pred_alt holds and r elsewhere; the selections on
      \* pred_alt are carried to the result
      s4(v) == v @@ [ya |-> FFma(F32, FNeg(v.r), v.p,
                                 FMul(F32, FNeg(v.r), v.z2)),
                     yr |-> FFma(F32, v.r, v.p, FMul(F32, v.r, v.z2))]
      s5(v) == v @@ [y |-> SelV(v.pred_alt, FDiv(F32, One(F32), v.ya), v.yr)]
      \* pred_minuszero = svcmpeq (pg, x, -0.0) holds for +0 and -0
      out(v) == [red |-> [n |-> v.n, r |-> v.r], pol |-> v.p,
                 y |-> ZeroFix(x, v.y)]
  IN  IF pg THEN out(s5(s4(s3(s2(s1(s0))))))
      ELSE [red |-> [n |-> Unspec, r |-> Unspec], pol |-> Unspec,
            y |-> Unspec]

(* ------------------------------------------------------------------ *)
(* pl/math/sv_exp2_2u.c : SVE double-precision 2^x                    *)
(* ------------------------------------------------------------------ *)

\* special = svnot_b_z (pg, svacle (pg, x, BigBound)): the active lanes in
\* which |x| <= 1022 does not hold, NaN lanes among them
SvExp2Cmp(pg, w) ==
  pg /\ ~(pg /\ FLe(FAbs(FromBits(F64, w)), Num(0, 511, 1)))

\* k = N * kd for kd = (x + shift) - shift with shift = 1.5 * 2^52 / N, known
\* where x is a multiple of 1 / N below 2^21 in magnitude
SvExp2K(x) ==
  LET known == IsExact(x) /\ (IsZero(x) \/ (Expo(x) >= 0 - V_EXP_TABLE_BITS
                                           /\ Top(x) <= 20))
      mag == IF known /\ ~IsZero(x)
               THEN Mant(x) * Pow2(Expo(x) + V_EXP_TABLE_BITS) ELSE 0
  IN  [known |-> known, k |-> IF x.s = 1 THEN 0 - mag ELSE mag]

\* a small integer as a two's-complement 64-bit word
WInt(k) == IF k < 0 THEN WSub(WZero(4), WOf(4, 0 - k)) ELSE WOf(4, k)

SvExp2Fast(pg, w) ==
  LET x == FromBits(F64, w)
      kk == SvExp2K(x)
      N == Pow2(V_EXP_TABLE_BITS)
      \* kd = k / N: x rounded to a multiple of 1 / N
      s0 == [kd |-> IF IsNaN(x) \/ IsInf(x) THEN x
                    ELSE IF IsZero(x) THEN Zero(0)
                    ELSE IF kk.known THEN x
                    ELSE Term(x.s, "roundN", <<x.t>>)]
      s1(v) == v @@ [r |-> FSub(F64, x, v.kd)]
      \* sbits + top: the table entry of index 0 is asuint64 (1.0); the low
      \* 19 bits of ki are zero for an infinity and for the default NaN
      s2(v) == v @@ [sbits |-> IF IsNaN(x) \/ IsInf(x)
                                 THEN ToBits(F64, One(F64))
                               ELSE IF kk.known /\ kk.k % N = 0
                                 THEN WAdd(ToBits(F64, One(F64)),
                                           WShl(WInt(kk.k),
                                                52 - V_EXP_TABLE_BITS))
                               ELSE <<>>]
      s3(v) == v @@ [scale |-> IF v.sbits # <<>> THEN FromBits(F64, v.sbits)
                               ELSE Term(0, "scale", <<x.t>>)]
      s4(v) == v @@ [p |-> Opq("ESTRIN_3", <<v.r, FMul(F64, v.r, v.r)>>)]
      s5(v) == v @@ [y |-> FMul(F64, v.r, v.p)]
      out(v) == [red |-> [n |-> v.kd, r |-> v.r, s |-> v.scale,
                          sbits |-> v.sbits],
                 pol |-> v.y, y |-> FFma(F64, v.scale, v.scale, v.y)]
  IN  IF pg THEN out(s5(s4(s3(s2(s1(s0))))))
      ELSE [red |-> [n |-> Unspec, r |-> Unspec, s |-> Unspec,
                     sbits |-> <<>>],
            pol |-> Unspec, y |-> Unspec]

\* special_case (pg, scale, y, kd): s = s1 * s2 in every active lane
SvExp2Special(f) ==
  LET n == f.red.n
      p_sign == NLeZero(n)
      s0 == [s1 |-> FromBits(F64, ExpSplit(WZero(4), p_sign).s1),
             s2 |-> IF f.red.sbits # <<>>
                      THEN FromBits(F64, ExpSplit(f.red.sbits, p_sign).s2)
                    ELSE Term(f.red.s.s, "rescale", <<f.red.s.t, p_sign>>)]
      s1(v) == v @@ [r1 |-> FMul(F64, v.s1, v.s1),
                     r2 |-> FFma(F64, v.s2, v.s2, f.pol)]
      s2(v) == v @@ [r0 |-> FMul(F64, v.r2, v.s1)]
      \* p_cmp = svacgt (pg, n, uoflow_bound): |n| > 1280, false for NaN
      out(v) == IF IsTerm(n)
                  THEN Term(0, "sel", <<<<"absn>1280", n.t>>, v.r1, v.r0>>)
                ELSE IF FGt(FAbs(n), Num(0, 5, 8)) THEN v.r1 ELSE v.r0
  IN  IF f.y = Unspec THEN Unspec ELSE out(s2(s1(s0)))

(* ------------------------------------------------------------------ *)
(* pl/math/sv_expf_2u.c : SVE single-precision e^x, as built by        *)
(* default ("sv_expf") and with SV_EXPF_USE_FEXPA ("sv_expf_fexpa")    *)
(* ------------------------------------------------------------------ *)

\* n = z - shift for z = shift + x * inv_ln2: shift = 1.5 * 2^23 rounds the
\* product to an integer, shift = 0x1.903f8p17 to a multiple of 1 / 64
SvExpfN(fexpa, x) ==
  IF ~fexpa THEN MagicRound(F32, x, K32(\H3FB8, \HAA3B))
  ELSE IF IsNaN(x) \/ IsInf(x) THEN x
  ELSE IF IsZero(x) THEN Zero(0)
  ELSE Term(x.s, "round64", <<x.t>>)

\* is_special_case of the default build: svacgt (pg, n, thres), |n| > 126,
\* false for a NaN; n is decided where x is short and is above 126 from
\* |x| = 87.7 on: between 87 and 88 the bound used for a long x is 87.5
SvExpfCmpN(pg, x, n) ==
  pg /\ (IF IsNaN(n) \/ IsZero(n) THEN FALSE
         ELSE IF IsInf(n) THEN TRUE
         ELSE IF RintKnown(n) THEN RintParts(n).abs > 126
         ELSE FGt(FAbs(x), Num(0, 175, -1)))

\* is_special_case with FEXPA: svorr_b_z (pg, svacgt (pg, x, thres),
\* svcmpne (pg, x, x)) for thres = 0x1.5d5e2ap+6
SvExpfCmpX(pg, x) ==
  pg /\ (FGt(FAbs(x), K32(\H42AE, \HAF15)) \/ IsNaN(x))

SvExpfCmp(fexpa, pg, w) ==
  LET x == FromBits(F32, w)
  IN  IF fexpa THEN SvExpfCmpX(pg, x)
      ELSE SvExpfCmpN(pg, x, SvExpfN(fexpa, x))

\* a small integer as a two's-complement 32-bit word
WInt32(k) == IF k < 0 THEN WSub(WZero(2), WOf(2, 0 - k)) ELSE WOf(2, k)

SvExpfFast(fexpa, pg, w) ==
  LET x == FromBits(F32, w)
      ln2_hi == K32(\H3F31, \H7200)
      ln2_lo == K32(\H35BF, \HBE8E)
      ExponentBias == W32(\H3F80, 0)
      s0 == [n |-> SvExpfN(fexpa, x)]
      s1(v) == v @@ [r |-> FFma(F32, FFma(F32, x, FNeg(v.n), ln2_hi),
                                FNeg(v.n), ln2_lo)]
      \* e = asuint (z) << 23, which is n << 23 for an integer n within the
      \* low bits of z and 0 for an infinity and for the default NaN
      s2(v) == v @@ [e |-> IF IsNaN(v.n) \/ IsInf(v.n) \/ IsZero(v.n)
                             THEN WZero(2)
                           ELSE IF RintKnown(v.n)
                             THEN WShl(WInt32(IF v.n.s = 1
                                                THEN 0 - RintParts(v.n).abs
                                              ELSE RintParts(v.n).abs), 23)
                           ELSE <<>>]
      s3(v) == v @@ [scale |-> IF fexpa THEN Term(0, "svexpa", <<v.n.t>>)
                               ELSE IF v.e # <<>>
                                 THEN FromBits(F32, WAdd(v.e, ExponentBias))
                               ELSE Term(0, "scale", <<v.n.t>>)]
      s4(v) == v @@ [p14 |-> Opq("ESTRIN_3_", <<v.r, FMul(F32, v.r, v.r)>>),
                     p0 |-> FMul(F32, v.r, Term(0, "C0", <<>>))]
      s5(v) == v @@ [poly |-> FFma(F32, v.p0, FMul(F32, v.r, v.r), v.p14)]
      out(v) == [red |-> [n |-> v.n, r |-> v.r, s |-> v.scale],
                 pol |-> v.poly, y |-> FFma(F32, v.scale, v.scale, v.poly)]
  IN  IF pg THEN out(s5(s4(s3(s2(s1(s0))))))
      ELSE [red |-> [n |-> Unspec, r |-> Unspec, s |-> Unspec],
            pol |-> Unspec, y |-> Unspec]

\* __sv_expf_specialcase (pg, poly, n, e, is_special_case, scale) of the
\* default build: vector code of a header, kept as an uninterpreted value of
\* its arguments in every active lane
SvExpfSpecial(f, pl) ==
  IF f.y = Unspec THEN Unspec
  ELSE Term(0, "__sv_expf_specialcase", <<f.pol, f.red.n, f.red.s, pl>>)

(* ------------------------------------------------------------------ *)
(* pl/math/v_log2f_2u5.c, sv_logf_3u4.c, sv_log10f_3u5.c :            *)
(* the single-precision kernels that share logf's reduction           *)
(* ------------------------------------------------------------------ *)

Log2fFast(w) ==
  LET s0 == [i |-> LogfReduce(w)]
      \* x = 2^n * (1+r), where 2/3 < 1+r < 4/3
      s1(v) == v @@ [n |-> IntToF(v.i.n),
                     r |-> FSub(F32, FromBits(F32, v.i.u), One(F32))]
      \* y = log2(1+r) + n
      s2(v) == v @@ [p |-> Opq("PAIRWISE_HORNER_8", <<v.r>>)]
      out(v) == [red |-> [n |-> v.n, u |-> v.i.u, r |-> v.r], pol |-> v.p,
                 y |-> FFma(F32, v.n, v.p, v.r)]
  IN  out(s2(s1(s0)))

SvLogfFast(pg, w) ==
  LET Ln2 == K32(\H3F31, \H7218)
      P(i) == Term(0, "__sv_logf_poly", <<i>>)
      s0 == [i |-> LogfReduce(w)]
      s1(v) == v @@ [n |-> IntToF(v.i.n),
                     r |-> FSub(F32, FromBits(F32, v.i.u), One(F32))]
      s2(v) == v @@ [r2 |-> FMul(F32, v.r, v.r)]
      \* n*ln2 + r + r2*(P6 + r*P5 + r2*(P4 + r*P3 + r2*(P2 + r*P1 + r2*P0)))
      s3(v) == v @@ [p |-> FFma(F32, FFma(F32, P(2), v.r, P(1)), v.r2, P(0))]
      s4(v) == v @@ [q |-> FFma(F32, FFma(F32, P(4), v.r, P(3)), v.r2, v.p)]
      s5(v) == v @@ [y |-> FFma(F32, FFma(F32, P(6), v.r, P(5)), v.r2, v.q)]
      out(v) == [red |-> [n |-> v.n, u |-> v.i.u, r |-> v.r], pol |-> v.y,
                 y |-> FFma(F32, FFma(F32, v.r, v.n, Ln2), v.r2, v.y)]
  IN  IF pg THEN out(s5(s4(s3(s2(s1(s0))))))
      ELSE [red |-> [n |-> Unspec, u |-> Unspec, r |-> Unspec],
            pol |-> Unspec, y |-> Unspec]

SvLog10fFast(pg, w) ==
  LET Ln2 == K32(\H3F31, \H7218)
      InvLn10 == K32(\H3EDE, \H5BD9)
      s0 == [i |-> LogfReduce(w)]
      s1(v) == v @@ [n |-> IntToF(v.i.n),
                     r |-> FSub(F32, FromBits(F32, v.i.u), One(F32))]
      \* y = log10(1+r) + n*log10(2), log10(1+r) ~ r * InvLn(10) + P(r)
      s2(v) == v @@ [r2 |-> FMul(F32, v.r, v.r),
                     y |-> Opq("ESTRIN_7", <<v.r>>)]
      s3(v) == v @@ [p |-> FFma(F32, v.r, v.n, Ln2)]
      out(v) == [red |-> [n |-> v.n, u |-> v.i.u, r |-> v.r], pol |-> v.y,
                 y |-> FFma(F32, FMul(F32, v.p, InvLn10), v.r2, v.y)]
  IN  IF pg THEN out(s3(s2(s1(s0))))
      ELSE [red |-> [n |-> Unspec, u |-> Unspec, r |-> Unspec],
            pol |-> Unspec, y |-> Unspec]

(* ------------------------------------------------------------------ *)
(* pl/math/v_log10_2u5.c, sv_log2_3u.c : double-precision table logs  *)
(* ------------------------------------------------------------------ *)

V_LOG10_TABLE_BITS == 7

Log10Cmp(w) ==
  LET BigBound == W64(\H7FF0, 0, 0, 0)
      TinyBound == W64(\H0010, 0, 0, 0)
  IN  WGe(WSub(w, TinyBound), WSub(BigBound, TinyBound))

\* faulty variant: the lower bound is not subtracted
SvLog2Cmp_NoTiny(pg, w) == pg /\ WGe(WShr(w, 48), WOf(4, \H7FF0))

SvLog2Cmp(pg, w) ==
  pg /\ WGe(WSub(WShr(w, 48), WOf(4, \H0010)), WOf(4, \H7FF0 - \H0010))

\* a word modulo n, for n a power of two up to 2^16
WMod(a, n) == WOf(Len(a), a[1] % n)

\* faulty variant: the index is taken from the bits above the mantissa
LogTabReduce_High(w) ==
  LET OFF == W64(\H3FE6, \H9009, 0, 0)
      t(tmp) == [i |-> WShr(tmp, 52),
                 k |-> AShr32(tmp, 52),
                 iz |-> WSub(w, WAnd(tmp, W64(\HFFF0, 0, 0, 0)))]
  IN  t(WSub(w, OFF))

\* x = 2^k z, z in [OFF, 2*OFF), and the index i of the subinterval of z:
\* tmp = ix - OFF; i = (tmp >> (52 - TABLE_BITS)) % N; k = tmp >> 52
\* (arithmetic); iz = ix - (tmp & 0xfff << 52)
LogTabReduce(w) ==
  LET OFF == W64(\H3FE6, \H9009, 0, 0)
      N == Pow2(V_LOG10_TABLE_BITS)
      t(tmp) == [i |-> WMod(WShr(tmp, 52 - V_LOG10_TABLE_BITS), N),
                 k |-> AShr32(tmp, 52),
                 iz |-> WSub(w, WAnd(tmp, W64(\HFFF0, 0, 0, 0)))]
  IN  t(WSub(w, OFF))

\* entry i of the table of (invc, logc) pairs; c = 1 in the subinterval of 1.0
LogTab(name, i) ==
  IF i = LogTabReduce(W64(\H3FF0, 0, 0, 0)).i
    THEN [invc |-> One(F64), logc |-> Zero(0)]
  ELSE [invc |-> Term(0, "invc", <<name, i>>),
        logc |-> Term(0, "logc", <<name, i>>)]

Log10Fast(w) ==
  LET A(i) == Term(0, "__v_log10_data.poly", <<i>>)
      invln10 == Term(0, "__v_log10_data.invln10", <<>>)
      log10_2 == Term(0, "__v_log10_data.log10_2", <<>>)
      s0 == [t |-> LogTabReduce(w)]
      s1(v) == v @@ [z |-> FromBits(F64, v.t.iz),
                     e |-> LogTab("log10", v.t.i)]
      \* log10(x) = log1p(z/c-1)/log(10) + log10(c) + k*log10(2)
      s2(v) == v @@ [r |-> FFma(F64, Num(1, 1, 0), v.z, v.e.invc),
                     kd |-> IntToF(v.t.k)]
      \* hi = r / log(10) + log10(c) + k*log10(2)
      s3(v) == v @@ [hi |-> FFma(F64, FFma(F64, v.e.logc, v.r, invln10),
                                 v.kd, log10_2),
                     r2 |-> FMul(F64, v.r, v.r)]
      \* y = r2*(A0 + r*A1 + r2*(A2 + r*A3 + r2*A4)) + hi
      s4(v) == v @@ [y |-> FFma(F64, FFma(F64, A(0), A(1), v.r),
                                FFma(F64, FFma(F64, A(2), A(3), v.r),
                                     A(4), v.r2),
                                v.r2)]
      out(v) == [red |-> [i |-> v.t.i, k |-> v.t.k, iz |-> v.t.iz, r |-> v.r],
                 pol |-> v.y, y |-> FFma(F64, v.hi, v.y, v.r2)]
  IN  out(s4(s3(s2(s1(s0)))))

SvLog2Fast(pg, w) ==
  LET P(i) == Term(0, "__v_log2_data.poly", <<i>>)
      InvLn2 == K64(\H3FF7, \H1547, \H652B, \H82FE)
      s0 == [t |-> LogTabReduce(w)]
      s1(v) == v @@ [z |-> FromBits(F64, v.t.iz),
                     k |-> IntToF(v.t.k),
                     e |-> LogTab("log2", v.t.i)]
      \* log2(x) = log1p(z/c-1)/log(2) + log2(c) + k
      s2(v) == v @@ [r |-> FFma(F64, Num(1, 1, 0), v.e.invc, v.z)]
      s3(v) == v @@ [w |-> FFma(F64, v.e.logc, InvLn2, v.r),
                     r2 |-> FMul(F64, v.r, v.r)]
      s4(v) == v @@ [y |-> FFma(F64, FFma(F64, P(0), v.r, P(1)), v.r2,
                                FFma(F64, FFma(F64, P(2), v.r, P(3)),
                                     v.r2, P(4)))]
      out(v) == [red |-> [i |-> v.t.i, k |-> v.t.k, iz |-> v.t.iz, r |-> v.r],
                 pol |-> v.y, y |-> FFma(F64, FAdd(F64, v.k, v.w), v.r2, v.y)]
  IN  IF pg THEN out(s4(s3(s2(s1(s0)))))
      ELSE [red |-> [i |-> Unspec, k |-> Unspec, iz |-> Unspec,
                     r |-> Unspec],
            pol |-> Unspec, y |-> Unspec]

(* ------------------------------------------------------------------ *)
(* The scalar routines the special-case handlers call, and v_call     *)
(* ------------------------------------------------------------------ *)

\* the scalar reference routine, by the cases the C standard fixes; every
\* other result is a finite non-zero value named by the routine and its input
ScalarRef(k, F, w, w2) ==
  LET PiOver2 == K64(\H3FF9, \H21FB, \H5444, \H2D18)
      Pi == K64(\H4009, \H21FB, \H5444, \H2D18)
      gen(s, a) == Term(s, k, <<a>>)
      ref(x, x2) ==
        IF IsNaN(x) \/ IsNaN(x2) THEN NaN
        ELSE CASE k \in {"exp", "sv_expf", "sv_expf_fexpa"} ->
                  IF IsInf(x) THEN (IF x.s = 0 THEN Inf(0) ELSE Zero(0))
                  ELSE IF IsZero(x) THEN One(F) ELSE gen(0, x)
             [] k \in {"logf", "log2f", "log10", "sv_logf", "sv_log10f",
                        "sv_log2"} ->
                  IF IsZero(x) THEN Inf(1)
                  ELSE IF x.s = 1 THEN NaN
                  ELSE IF IsInf(x) THEN Inf(0)
                  ELSE IF x = One(F) THEN Zero(0) ELSE gen(0, x)
             [] k = "erfc" ->
                  IF IsInf(x) THEN (IF x.s = 0 THEN Zero(0) ELSE Num(0, 1, 1))
                  ELSE IF IsZero(x) THEN One(F) ELSE gen(0, x)
             [] k = "acos" ->
                  IF IsInf(x) \/ FGt(FAbs(x), One(F)) THEN NaN
                  ELSE IF x = One(F) THEN Zero(0) ELSE gen(0, x)
             [] k = "atan2" ->
                  \* here x is the first argument (y) and x2 the second (x)
                  IF IsZero(x2) /\ ~IsZero(x)
                    THEN [PiOver2 EXCEPT !.s = x.s]
                  ELSE IF IsZero(x)
                    THEN (IF x2.s = 0 THEN x ELSE [Pi EXCEPT !.s = x.s])
                  ELSE IF IsInf(x2) /\ ~IsInf(x)
                    THEN (IF x2.s = 0 THEN Zero(x.s) ELSE [Pi EXCEPT !.s = x.s])
                  ELSE IF IsInf(x) /\ ~IsInf(x2)
                    THEN [PiOver2 EXCEPT !.s = x.s]
                  ELSE Term(x.s, k, <<FAbs(x), x2>>)
             [] k = "log1p" ->
                  IF IsZero(x) THEN x
                  ELSE IF x = Num(1, 1, 0) THEN Inf(1)
                  ELSE IF IsInf(x) THEN (IF x.s = 0 THEN x ELSE NaN)
                  ELSE IF FLt(x, Num(1, 1, 0)) THEN NaN ELSE gen(x.s, FAbs(x))
             [] k \in {"expm1", "expm1f"} ->
                  IF IsZero(x) THEN x
                  ELSE IF IsInf(x) THEN (IF x.s = 0 THEN x ELSE Num(1, 1, 0))
                  ELSE gen(x.s, FAbs(x))
             [] k = "sinh" ->
                  IF IsZero(x) \/ IsInf(x) THEN x ELSE gen(x.s, FAbs(x))
             [] OTHER ->
                  \* tan, tanf, sin
                  IF IsZero(x) THEN x
                  ELSE IF IsInf(x) THEN NaN ELSE gen(x.s, FAbs(x))
  IN  ref(FromBits(F, w), FromBits(F, IF k = "atan2" THEN w2 ELSE w))

\* v_call_f64 / v_call_f32 / v_call2_f64 / sv_call_f64: lane l of the result
\* is the scalar routine on lane l of x where p holds and lane l of y elsewhere
v_call(k, F, x, x2, y, p) ==
  [l \in DOMAIN y |-> IF p[l] THEN ScalarRef(k, F, x[l], x2[l]) ELSE y[l]]

\* the scalar calls v_call makes, in lane order
RECURSIVE CallsOf(_, _, _, _)
CallsOf(x, x2, p, l) ==
  IF l > Len(p) THEN <<>>
  ELSE (IF p[l] THEN <<[lane |-> l, a |-> x[l], a2 |-> x2[l]]>> ELSE <<>>)
       \o CallsOf(x, x2, p, l + 1)

(* ------------------------------------------------------------------ *)
(* The kernels as one state machine: classify, reduce, evaluate the   *)
(* polynomial, reconstruct, splice the special lanes                  *)
(* ------------------------------------------------------------------ *)

Kernels == {"exp", "logf", "erfc", "acos", "atan2", "log1p", "sinh", "tan",
            "expm1", "tanf", "sv_sin", "log2f", "log10", "sv_logf",
            "sv_log10f", "sv_log2", "expm1f", "sv_tanf", "sv_exp2", "sv_expf",
            "sv_expf_fexpa"}

\* the SVE kernels, which take a governing predicate
IsSve(k) == k \in {"sv_sin", "sv_logf", "sv_log10f", "sv_log2", "sv_tanf",
                   "sv_exp2", "sv_expf", "sv_expf_fexpa"}

\* single-precision kernels; the others are double-precision
Fmt(k) == IF k \in {"logf", "tanf", "log2f", "sv_logf", "sv_log10f",
                    "expm1f", "sv_tanf", "sv_expf", "sv_expf_fexpa"}
            THEN F32 ELSE F64

\* kernels that write a dummy over special lanes under WANT_SIMD_EXCEPT
Dummied(k) == k \in {"exp", "log1p", "tanf"}

\* faulty variant: no kernel returns before its fast path
AllLanes_Never(k, ex) == FALSE

\* kernels that hand every lane to the scalar routine when any lane is special
AllLanes(k, ex) ==
  k \in {"sinh", "tan"} \/ (ex /\ k \in {"acos", "expm1", "expm1f"})

\* the special-case handler: scalar calls, the vector two-step scaling of
\* exp without exceptions, of SVE exp2 and of SVE expf as built by default,
\* or none (acos without exceptions)
Handler(k, ex) ==
  IF (k = "exp" /\ ~ex) \/ k \in {"sv_exp2", "sv_expf"} THEN "vector"
  ELSE IF k = "acos" /\ ~ex THEN "none"
  ELSE "scalar"

\* the special-case predicate of one lane
Flag(k, ex, pgl, w, w2) ==
  CASE k = "exp" -> ExpCmp(ex, w)
    [] k = "logf" -> LogfCmp(w)
    [] k = "erfc" -> ErfcCmp(w)
    [] k = "acos" -> ex /\ AcosSpecial(w)
    [] k = "atan2" -> Atan2Special(w, w2)
    [] k = "log1p" -> Log1pSpecial(w)
    [] k = "sinh" -> SinhSpecial(ex, w)
    [] k = "tan" -> TanSpecial(ex, w)
    [] k = "expm1" -> Expm1Special(ex, w)
    [] k = "tanf" -> TanfSpecial(ex, w)
    [] k = "sv_sin" -> SvSinCmp(pgl, w)
    [] k = "log2f" -> LogfCmp(w)
    [] k = "log10" -> Log10Cmp(w)
    [] k \in {"sv_logf", "sv_log10f"} -> pgl /\ LogfCmp(w)
    [] k = "sv_log2" -> SvLog2Cmp(pgl, w)
    [] k = "expm1f" -> Expm1fSpecial(ex, w)
    [] k = "sv_tanf" -> SvTanfCmp(pgl, w)
    [] k = "sv_exp2" -> SvExp2Cmp(pgl, w)
    [] k = "sv_expf" -> SvExpfCmp(FALSE, pgl, w)
    [] k = "sv_expf_fexpa" -> SvExpfCmp(TRUE, pgl, w)

\* faulty variant: no dummy is written
MaskIn_None(k, ex, w) == w

\* the input of one lane as the fast path receives it
MaskIn(k, ex, w) ==
  CASE k = "exp" -> ExpMask(ex, w)
    [] k = "log1p" -> Log1pMask(ex, w)
    [] k = "tanf" -> TanfMask(ex, w)
    [] OTHER -> w

\* the fast path of one lane: reduction, polynomial, reconstruction
Fast(k, ex, pgl, w, w2) ==
  CASE k = "exp" -> ExpFast(FromBits(F64, w))
    [] k = "logf" -> LogfFast(w)
    [] k = "erfc" -> ErfcFast(w)
    [] k = "acos" -> AcosFast(ex, w)
    [] k = "atan2" -> Atan2Fast(w, w2)
    [] k = "log1p" -> Log1pFast(w)
    [] k = "sinh" -> SinhFast(w)
    [] k = "tan" -> TanFast(w)
    [] k = "expm1" -> Expm1Fast(w)
    [] k = "tanf" -> TanfFast(ex, w)
    [] k = "sv_sin" -> SvSinFast(pgl, w)
    [] k = "log2f" -> Log2fFast(w)
    [] k = "log10" -> Log10Fast(w)
    [] k = "sv_logf" -> SvLogfFast(pgl, w)
    [] k = "sv_log10f" -> SvLog10fFast(pgl, w)
    [] k = "sv_log2" -> SvLog2Fast(pgl, w)
    [] k = "expm1f" -> Expm1fFast(w)
    [] k = "sv_tanf" -> SvTanfFast(pgl, w)
    [] k = "sv_exp2" -> SvExp2Fast(pgl, w)
    [] k = "sv_expf" -> SvExpfFast(FALSE, pgl, w)
    [] k = "sv_expf_fexpa" -> SvExpfFast(TRUE, pgl, w)

\* faulty variant: all lanes instead of any lane
v_any_All(p) == \A l \in DOMAIN p : p[l]

v_any(p) == \E l \in DOMAIN p : p[l]

\* faulty variant: every lane takes the predicate of lane 1
SpecialV_Lane1(k, ex, pgv, x, x2) ==
  [l \in DOMAIN x |-> Flag(k, ex, pgv[1], x[1], x2[1])]

SpecialV(k, ex, pgv, x, x2) ==
  [l \in DOMAIN x |-> Flag(k, ex, pgv[l], x[l], x2[l])]

MaskV(k, ex, x) == [l \in DOMAIN x |-> MaskIn(k, ex, x[l])]

FastV(k, ex, pgv, xm, x2) ==
  [l \in DOMAIN xm |-> Fast(k, ex, pgv[l], xm[l], x2[l])]

AllTrue(x) == [l \in DOMAIN x |-> TRUE]

\* the early return for all lanes: v_call (f, x, x, AllMask)
EarlyV(k, x, x2) ==
  v_call(k, Fmt(k), x, x2, [l \in DOMAIN x |-> FromBits(Fmt(k), x[l])],
         AllTrue(x))

\* erfc's short path: return fac
ShortV(x) == [l \in DOMAIN x |-> ErfcFac(x[l])]

\* the vector handlers, which rewrite every lane
VectorCase(k, f, pl) ==
  CASE k = "sv_exp2" -> SvExp2Special(f)
    [] k = "sv_expf" -> SvExpfSpecial(f, pl)
    [] OTHER -> ExpSpecialFast(f)

\* faulty variant: the scalar routine receives the masked input
SpliceV_Dummy(k, ex, x, x2, f, p) ==
  IF Handler(k, ex) = "vector"
    THEN [l \in DOMAIN x |-> VectorCase(k, f[l], p[l])]
  ELSE v_call(k, Fmt(k), MaskV(k, ex, x), x2, [l \in DOMAIN x |-> f[l].y], p)

\* faulty variant: the handler overwrites every lane
SpliceV_All(k, ex, x, x2, f, p) ==
  IF Handler(k, ex) = "vector"
    THEN [l \in DOMAIN x |-> VectorCase(k, f[l], p[l])]
  ELSE v_call(k, Fmt(k), x, x2, [l \in DOMAIN x |-> f[l].y], AllTrue(x))

\* the special-case handler applied to the fast-path result f of all lanes
SpliceV(k, ex, x, x2, f, p) ==
  IF Handler(k, ex) = "vector"
    THEN [l \in DOMAIN x |-> VectorCase(k, f[l], p[l])]
  ELSE v_call(k, Fmt(k), x, x2, [l \in DOMAIN x |-> f[l].y], p)

\* the route a call takes
Route(k, ex, pgv, x, x2) ==
  IF AllLanes(k, ex) /\ v_any(SpecialV(k, ex, pgv, x, x2)) THEN "early"
  ELSE IF k = "erfc" /\ ErfcShort(x) THEN "short"
  ELSE IF v_any(SpecialV(k, ex, pgv, x, x2)) THEN "special"
  ELSE "fast"

\* the value a call returns
KernelResult(k, ex, pgv, x, x2) ==
  LET p == SpecialV(k, ex, pgv, x, x2)
      f == FastV(k, ex, pgv, MaskV(k, ex, x), x2)
      rt == Route(k, ex, pgv, x, x2)
  IN  CASE rt = "early" -> EarlyV(k, x, x2)
        [] rt = "short" -> ShortV(x)
        [] rt = "special" -> SpliceV(k, ex, x, x2, f, p)
        [] OTHER -> [l \in DOMAIN x |-> f[l].y]

\* calls made on one input vector
MaxCalls == 2

D(h3) == W64(h3, 0, 0, 0)
S(h1) == W32(h1, 0)

\* sample inputs of a kernel, as bit patterns
Samples(k) ==
  CASE k = "exp" -> {D(0), D(\H3FF0), W64(\H4086, \H0800, 0, 0), D(\H7FF8),
                     D(\H7FF0), D(\HFFF0), D(\H1A70)}
    [] k = "logf" -> {S(\H3F80), S(\H4100), S(\H7FC0)}
    [] k = "erfc" -> {D(\H7FF8), D(\H7FF0), D(\H3FF0), D(\H4044), D(\HC044),
                      D(\H3C30), D(\H403F)}
    [] k = "acos" -> {D(\H7FF8), D(\H3FE0), D(\H3FF0), D(\HBFF0), D(\H4000),
                      D(\HC000), D(\H3C30), D(0), D(\H8000), D(\HBFE8)}
    [] k = "atan2" -> {D(\H4014), D(0), D(\H7FF8), D(\HBFF0)}
    [] k = "log1p" -> {D(0), D(\H8000), D(\H3FF0), D(\HBFF0), D(\H7FF8),
                       D(\H3C30)}
    [] k = "sinh" -> {D(0), D(\H3FF0), D(\HBFF0), D(\H4008), D(\H4080),
                      D(\H7FF8), D(\H3E10)}
    [] k = "tan" -> {D(\H3FF0), D(\HBFF0), D(\H4008), D(0), D(\H8000),
                     D(\H4170), D(\H7FF8)}
    [] k = "expm1" -> {D(0), D(\H8000), D(\H3FF0), D(\HBFF0), D(\H6570),
                       D(\H7FF8), D(\H3C30)}
    [] k = "tanf" -> {S(\H3F80), S(\H8000), S(\H7FC0), S(\H4040)}
    [] k = "sv_sin" -> {D(\H3FF0), D(\HBFF0), D(0), D(\H4160), D(\H7FF8)}
    [] k = "log2f" -> {S(\H3F80), S(\H4100), S(\H8000)}
    [] k = "log10" -> {D(\H3FF0), D(\H4024), D(\H7FF0), D(\H000F)}
    [] k = "sv_logf" -> {S(\H3F80), S(\H3F00), S(\H7F80)}
    [] k = "sv_log10f" -> {S(\H3F80), S(\H4120), S(\H0040)}
    [] k = "sv_log2" -> {D(\H3FF0), D(\H4000), D(\HBFF0), D(\H7FF8)}
    [] k = "expm1f" -> {S(0), S(\H8000), S(\H3F80)}
    [] k = "sv_tanf" -> {S(0), S(\H8000), S(\H3F80), S(\H4040), S(\H4780),
                         S(\H7FC0)}
    [] k = "sv_exp2" -> {D(\H3FF0), D(\H4090), W64(\HC091, \H3000, 0, 0),
                         W64(\H4094, \H5000, 0, 0), D(\H7FF8), D(\H8000)}
    [] k = "sv_expf" -> {S(0), S(\H3F80), S(\H42C8), S(\H7FC0), S(\HFF80)}
    [] k = "sv_expf_fexpa" -> {S(0), S(\H3F80), S(\H42C8), S(\H7FC0)}

\* sample second arguments (atan2's x)
Samples2 == {D(0), D(\HC000), D(\H7FF0), D(\H4000)}

\* input vectors: four lanes for float32x4_t, two for float64x2_t and for
\* the SVE kernels
Vecs(k, X) ==
  IF Fmt(k) = F32 /\ ~IsSve(k)
    THEN {<<a, b, c, d>> : a \in X, b \in X, c \in X, d \in X}
  ELSE {<<a, b>> : a \in X, b \in X}

\* one kernel call at a time: kernel .. prev, with fast the registers of the
\* fast path in flight; the coefficient and lookup tables: data; the calls of
\* several threads: thr; the integer steps of the kernels applied to one bit
\* pattern: bits
VARIABLES kernel, except, arg1, arg2, pg, pc, special, xm, fast, red, pol, yv,
          res, calls, route, rep, prev, data, thr, bits

vars == <<kernel, except, arg1, arg2, pg, pc, special, xm, fast, red, pol, yv,
          res, calls, route, rep, prev, data, thr, bits>>

callvars == <<kernel, except, arg1, arg2, pg, pc, special, xm, fast, red, pol,
              yv, res, calls, route, rep, prev>>

\* the tables as initialised, one set of tables per kernel
DataInit == [k \in Kernels |-> "initialised"]

\* what a call leaves alone: its input, the tables, the other machines
input == <<kernel, except, arg1, arg2, pg, data, thr, bits>>

Init ==
  /\ kernel \in Kernels
  /\ except \in BOOLEAN
  /\ arg1 \in Vecs(kernel, Samples(kernel))
  /\ arg2 \in (IF kernel = "atan2" THEN Vecs(kernel, Samples2) ELSE {arg1})
  /\ pg \in (IF IsSve(kernel) THEN Vecs(kernel, BOOLEAN)
             ELSE {AllTrue(arg1)})
  /\ pc = "start"
  /\ special = <<>> /\ xm = <<>> /\ fast = <<>>
  /\ red = <<>> /\ pol = <<>> /\ yv = <<>>
  /\ res = <<>> /\ calls = <<>> /\ route = "none"
  /\ rep = 0 /\ prev = <<>>
  /\ data = DataInit /\ thr = <<>> /\ bits = <<>>

\* the special-case predicate, and the dummy written over special lanes
Classify ==
  /\ pc = "start"
  /\ special' = SpecialV(kernel, except, pg, arg1, arg2)
  /\ xm' = MaskV(kernel, except, arg1)
  /\ pc' = "classified"
  /\ UNCHANGED <<input, fast, red, pol, yv, res, calls, route, rep, prev>>

\* any lane special: every lane goes to the scalar routine
EarlyFallback ==
  /\ pc = "classified"
  /\ AllLanes(kernel, except) /\ v_any(special)
  /\ res' = EarlyV(kernel, arg1, arg2)
  /\ calls' = CallsOf(arg1, arg2, AllTrue(arg1), 1)
  /\ route' = "early"
  /\ pc' = "done"
  /\ UNCHANGED <<input, special, xm, fast, red, pol, yv, rep, prev>>

\* erfc: all lanes out of bounds and some lane not special
ShortPath ==
  /\ pc = "classified"
  /\ kernel = "erfc" /\ ErfcShort(arg1)
  /\ res' = ShortV(arg1)
  /\ route' = "short"
  /\ pc' = "done"
  /\ UNCHANGED <<input, special, xm, fast, red, pol, yv, calls, rep, prev>>

Reduce ==
  /\ pc = "classified"
  /\ ~(AllLanes(kernel, except) /\ v_any(special))
  /\ ~(kernel = "erfc" /\ ErfcShort(arg1))
  /\ fast' = FastV(kernel, except, pg, xm, arg2)
  /\ red' = [l \in DOMAIN xm |-> fast'[l].red]
  /\ pc' = "reduced"
  /\ UNCHANGED <<input, special, xm, pol, yv, res, calls, route, rep, prev>>

Poly ==
  /\ pc = "reduced"
  /\ pol' = [l \in DOMAIN xm |-> fast[l].pol]
  /\ pc' = "poly"
  /\ UNCHANGED <<input, special, xm, fast, red, yv, res, calls, route, rep,
                 prev>>

Reconstruct ==
  /\ pc = "poly"
  /\ yv' = [l \in DOMAIN xm |-> fast[l].y]
  /\ pc' = "reconstructed"
  /\ UNCHANGED <<input, special, xm, fast, red, pol, res, calls, route, rep,
                 prev>>

\* faulty variant: the handler is entered again after it has run
SpecialCase_Retry ==
  /\ pc = "reconstructed"
  /\ v_any(special)
  /\ res' = SpliceV(kernel, except, arg1, arg2,
                    [l \in DOMAIN yv |->
                       [red |-> red[l], pol |-> pol[l], y |-> yv[l]]],
                    special)
  /\ calls' = IF Handler(kernel, except) = "scalar"
                THEN calls \o CallsOf(arg1, arg2, special, 1) ELSE <<>>
  /\ route' = "special"
  /\ pc' = IF Len(calls) < Len(arg1) THEN "reconstructed" ELSE "done"
  /\ UNCHANGED <<input, special, xm, fast, red, pol, yv, rep, prev>>

\* some lane special: the handler splices its results over the fast path's
SpecialCase ==
  /\ pc = "reconstructed"
  /\ v_any(special)
  /\ res' = SpliceV(kernel, except, arg1, arg2,
                    [l \in DOMAIN yv |->
                       [red |-> red[l], pol |-> pol[l], y |-> yv[l]]],
                    special)
  /\ calls' = IF Handler(kernel, except) = "scalar"
                THEN CallsOf(arg1, arg2, special, 1) ELSE <<>>
  /\ route' = "special"
  /\ pc' = "done"
  /\ UNCHANGED <<input, special, xm, fast, red, pol, yv, rep, prev>>

Return ==
  /\ pc = "reconstructed"
  /\ ~v_any(special)
  /\ res' = yv
  /\ route' = "fast"
  /\ pc' = "done"
  /\ UNCHANGED <<input, special, xm, fast, red, pol, yv, calls, rep, prev>>

\* the caller calls the kernel again on the same input
CallAgain ==
  /\ pc = "done"
  /\ rep + 1 < MaxCalls
  /\ rep' = rep + 1
  /\ prev' = res
  /\ pc' = "start"
  /\ special' = <<>> /\ xm' = <<>> /\ fast' = <<>>
  /\ red' = <<>> /\ pol' = <<>>
  /\ yv' = <<>> /\ res' = <<>> /\ calls' = <<>> /\ route' = "none"
  /\ UNCHANGED input

Next ==
  \/ Classify
  \/ EarlyFallback
  \/ ShortPath
  \/ Reduce
  \/ Poly
  \/ Reconstruct
  \/ SpecialCase
  \/ Return
  \/ CallAgain

Spec == Init /\ [][Next]_vars

(* ------------------------------------------------------------------ *)
(* Kernel calls of several threads over the shared tables             *)
(* ------------------------------------------------------------------ *)

NThreads == 2
Threads == 1..NThreads

\* faulty variant: a call keeps a scratch value in its kernel's tables
Stores_Scratch(k) == {k}

\* the tables a call of kernel k stores to: the kernels only load from
\* data.poly, data.shift, data.invln2, ... and from the lookup tables
Stores(k) == {}

\* the tables after a step of a call of kernel k
DataAfter(d, k) ==
  [n \in DOMAIN d |-> IF n \in Stores(k) THEN "written" ELSE d[n]]

\* the fast path of every lane, its coefficients loaded from the tables d
FastRead(d, k, ex, x) ==
  [l \in DOMAIN x |->
     IF d[k] = "initialised"
       THEN Fast(k, ex, TRUE, MaskIn(k, ex, x[l]), x[l])
     ELSE [red |-> Unspec, pol |-> Unspec, y |-> Opq("overwritten", <<>>)]]

\* the calls the threads make
ThreadCalls ==
  {[k |-> "expm1", ex |-> FALSE, x |-> <<D(\H3FF0), D(\H8000)>>],
   [k |-> "expm1", ex |-> TRUE, x |-> <<D(\H3FF0), D(\HBFF0)>>],
   [k |-> "expm1", ex |-> TRUE, x |-> <<D(0), D(\H3FF0)>>],
   [k |-> "exp", ex |-> FALSE, x |-> <<D(\H3FF0), D(0)>>],
   [k |-> "log10", ex |-> FALSE, x |-> <<D(\H4024), D(\H7FF0)>>]}

InitThreads ==
  /\ kernel = "exp" /\ except = FALSE
  /\ arg1 = <<D(0), D(0)>> /\ arg2 = arg1 /\ pg = AllTrue(arg1)
  /\ pc = "idle"
  /\ special = <<>> /\ xm = <<>> /\ fast = <<>>
  /\ red = <<>> /\ pol = <<>> /\ yv = <<>>
  /\ res = <<>> /\ calls = <<>> /\ route = "none"
  /\ rep = 0 /\ prev = <<>>
  /\ data = DataInit
  /\ thr \in [Threads ->
               {[call |-> c, pc |-> "start", special |-> <<>>, f |-> <<>>,
                 res |-> <<>>, overlapped |-> FALSE] : c \in ThreadCalls}]
  /\ bits = <<>>

\* some other thread is inside a call
MidCall(t) ==
  \E u \in Threads \ {t} : thr[u].pc \in {"classified", "computed"}

\* thread t takes a step that sets the fields r of its state
Step(t, r) ==
  thr' = [thr EXCEPT ![t] =
            r @@ [overlapped |-> thr[t].overlapped \/ MidCall(t)] @@ thr[t]]

TClassify(t) ==
  LET c == thr[t].call
  IN  /\ thr[t].pc = "start"
      /\ Step(t, [pc |-> "classified",
                  special |-> SpecialV(c.k, c.ex, AllTrue(c.x), c.x, c.x)])
      /\ data' = DataAfter(data, c.k)
      /\ UNCHANGED <<callvars, bits>>

TEarlyFallback(t) ==
  LET c == thr[t].call
  IN  /\ thr[t].pc = "classified"
      /\ AllLanes(c.k, c.ex) /\ v_any(thr[t].special)
      /\ Step(t, [pc |-> "done", res |-> EarlyV(c.k, c.x, c.x)])
      /\ data' = DataAfter(data, c.k)
      /\ UNCHANGED <<callvars, bits>>

\* reduction, polynomial and reconstruction, reading the tables
TFast(t) ==
  LET c == thr[t].call
  IN  /\ thr[t].pc = "classified"
      /\ ~(AllLanes(c.k, c.ex) /\ v_any(thr[t].special))
      /\ Step(t, [pc |-> "computed", f |-> FastRead(data, c.k, c.ex, c.x)])
      /\ data' = DataAfter(data, c.k)
      /\ UNCHANGED <<callvars, bits>>

TSpecialCase(t) ==
  LET c == thr[t].call
  IN  /\ thr[t].pc = "computed"
      /\ v_any(thr[t].special)
      /\ Step(t, [pc |-> "done",
                  res |-> SpliceV(c.k, c.ex, c.x, c.x, thr[t].f,
                                  thr[t].special)])
      /\ data' = DataAfter(data, c.k)
      /\ UNCHANGED <<callvars, bits>>

TReturn(t) ==
  LET c == thr[t].call
  IN  /\ thr[t].pc = "computed"
      /\ ~v_any(thr[t].special)
      /\ Step(t, [pc |-> "done",
                  res |-> [l \in DOMAIN c.x |-> thr[t].f[l].y]])
      /\ data' = DataAfter(data, c.k)
      /\ UNCHANGED <<callvars, bits>>

NextThreads ==
  \/ \E t \in Threads : TClassify(t)
  \/ \E t \in Threads : TEarlyFallback(t)
  \/ \E t \in Threads : TFast(t)
  \/ \E t \in Threads : TSpecialCase(t)
  \/ \E t \in Threads : TReturn(t)

SpecThreads == InitThreads /\ [][NextThreads]_vars

(* ------------------------------------------------------------------ *)
(* The integer steps of the kernels on single bit patterns            *)
(* ------------------------------------------------------------------ *)

\* the single comparison for a range: a - lo >= hi - lo, and its strict form
RangeGe(a, lo, hi) == WGe(WSub(a, lo), WSub(hi, lo))
RangeGt(a, lo, hi) == WGt(WSub(a, lo), WSub(hi, lo))

\* the number of significant bits of a word
WBitLen(a) ==
  LET top == {i \in DOMAIN a : a[i] # 0}
      hi == CHOOSE i \in top : \A j \in top : j <= i
  IN  IF top = {} THEN 0 ELSE 16 * (hi - 1) + BitLen(a[hi])

\* 2^k as a 64-bit word
WPow2(k) == WShl(WOf(4, 1), k)

\* the bit pattern of the double nearest to V / 2^q, for an integer
\* 0 < V < 2^54 given as a 64-bit word: the leading bit is implicit, the
\* exponent field counts its position, and a 54-bit V loses its last bit
\* by rounding to nearest, ties to even
DoubleOfInt(V, q) ==
  LET p == WBitLen(V)
      half == WShr(V, 1)
      m == IF p <= 53 THEN WShl(V, 53 - p)
           ELSE IF V[1] % 2 = 1 /\ half[1] % 2 = 1 THEN WAdd(half, WOf(4, 1))
           ELSE half
      E == F64.bias + p - 1 - q
  IN  WAdd(WShl(WOf(4, E), 52), WSub(m, WPow2(52)))

\* faulty variant: Shift = 1.0 * 2^52
MagicBits_One(k, q) == DoubleOfInt(WAdd(WPow2(52), k), q)

\* u = asuint64 (Shift + k / 2^q) for Shift = 1.5 * 2^52 / 2^q and the
\* integer k (two's complement): q = 0 in exp, q = V_EXP_TABLE_BITS in exp2
MagicBits(k, q) == DoubleOfInt(WAdd(W64(\H0018, 0, 0, 0), k), q)

\* i = u & IndexMask and e = u << (52 - V_EXP_TABLE_BITS)
MagicIndex(u) ==
  [i |-> WAnd(u, WOf(4, Pow2(V_EXP_TABLE_BITS) - 1)),
   e |-> WShl(u, 52 - V_EXP_TABLE_BITS)]

\* the bytes of a word, least significant first
RECURSIVE Bytes(_)
Bytes(w) ==
  IF w = <<>> THEN <<>>
  ELSE <<Head(w) % 256, Head(w) \div 256>> \o Bytes(Tail(w))

\* a * d + c for a string of bytes a and bytes d and c, one byte longer than a
RECURSIVE MulByte(_, _, _)
MulByte(a, d, c) ==
  IF a = <<>> THEN <<c>>
  ELSE LET s == Head(a) * d + c
       IN  <<s % 256>> \o MulByte(Tail(a), d, s \div 256)

\* a + b + c for strings of bytes with Len(a) <= Len(b), as long as b
RECURSIVE AddBytes(_, _, _)
AddBytes(a, b, c) ==
  IF b = <<>> THEN <<>>
  ELSE LET s == (IF a = <<>> THEN 0 ELSE Head(a)) + Head(b) + c
       IN  <<s % 256>> \o AddBytes(IF a = <<>> THEN <<>> ELSE Tail(a),
                                   Tail(b), s \div 256)

\* the exact product of two non-empty strings of bytes, Len(a) + Len(b) bytes
RECURSIVE WideMul(_, _)
WideMul(a, b) ==
  IF Len(b) = 1 THEN MulByte(a, Head(b), 0)
  ELSE AddBytes(MulByte(a, Head(b), 0), <<0>> \o WideMul(a, Tail(b)), 0)

\* bit k of a string of bytes, and the n bits from bit k on as a number
BitAt(P, k) ==
  IF k >= 0 /\ (k \div 8) + 1 \in DOMAIN P
    THEN (P[(k \div 8) + 1] \div Pow2(k % 8)) % 2
  ELSE 0
RECURSIVE BitsFrom(_, _, _)
BitsFrom(P, k, n) ==
  IF n = 0 THEN 0 ELSE BitAt(P, k) + 2 * BitsFrom(P, k + 1, n - 1)

\* the exponent field of a bit pattern of format F
ExpField(F, w) == (w[F.w] % 32768) \div Pow2(TopFrac(F))
\* a finite pattern of format F is Signif * 2^UnitExp
Signif(F, w) ==
  Tup([i \in 1..F.w |->
         IF i = F.w
           THEN (w[i] % Pow2(TopFrac(F)))
                + (IF ExpField(F, w) = 0 THEN 0 ELSE Pow2(TopFrac(F)))
         ELSE w[i]])
UnitExp(F, w) ==
  (IF ExpField(F, w) = 0 THEN 1 ELSE ExpField(F, w)) - F.bias - (F.p - 1)

\* the largest exponent field for which the rounded quotient is computed
\* bit by bit: |x| < 2^10
Pow2MaxExp == 9

\* i = the integer conversion of fma (Shift, InvLn2, x) - Shift for
\* Shift = 1.5 * 2^(p-1) and |x| < 2^(Pow2MaxExp + 1): the sum lies in
\* [2^(p-1), 2^p), where the format holds the integers only, so the fma
\* rounds the exact product InvLn2 * x to the nearest integer, ties to even
\* (Shift is even); the subtraction and the conversion are exact
RoundQuotient(F, x, c) ==
  LET P == WideMul(Bytes(Signif(F, x)), Bytes(Signif(F, c)))
      sh == 0 - (UnitExp(F, x) + UnitExp(F, c))
      N == BitsFrom(P, sh, Pow2MaxExp + 3)
      half == BitAt(P, sh - 1) = 1
      sticky == \E k \in 0..(8 * Len(P)) : k < sh - 1 /\ BitAt(P, k) = 1
      mag == IF half /\ (sticky \/ N % 2 = 1) THEN N + 1 ELSE N
  IN  IF Xor1(SignBit(x), SignBit(c)) = 1 THEN 0 - mag ELSE mag

\* u = (i << mantissa bits) + asuint (1.0), in the width of the format
Pow2Bits(F, i) ==
  WAdd(WShl(IF F.w = 2 THEN WInt32(i) ELSE WInt(i), F.p - 1),
       TopWord(F, 0, F.bias))

\* the kernels that build t = 2^i this way, their format and InvLn2
Pow2Kernels == {"expm1f", "expm1", "sinh"}
Pow2Format(k) == IF k = "expm1f" THEN F32 ELSE F64
Pow2InvLn2(k) ==
  IF k = "expm1f" THEN W32(\H3FB8, \HAA3B)
  ELSE W64(\H3FF7, \H1547, \H652B, \H82FE)

\* one lane up to t: the classifier, and for |x| < 2^(Pow2MaxExp + 1) the
\* integer i and the bits u of t; sinh passes |x| to its expm1 helper
Pow2Lane(k, ex, w) ==
  LET F == Pow2Format(k)
      x == IF k = "sinh" THEN WithSign(w, 0) ELSE w
      small == ExpField(F, x) <= F.bias + Pow2MaxExp
      i == RoundQuotient(F, x, Pow2InvLn2(k))
      head == [k |-> k, ex |-> ex, flag |-> Flag(k, ex, TRUE, w, w),
               small |-> small]
  IN  IF small THEN head @@ [i |-> i, u |-> Pow2Bits(F, i)] ELSE head

\* 32-bit patterns on both sides of the bounds of expm1f and sinhf
WordsExpm1f ==
  LET mags == {W32(0, 0), W32(\H33FF, \HFFFF), W32(\H3400, 0),
               W32(\H3EB1, \H7217), W32(\H3EB1, \H7219), W32(\H3F80, 0),
               W32(\H4000, 0), W32(\H42AF, \H5E1F), W32(\H42AF, \H5E20),
               W32(\H42B0, 0), W32(\H42B1, \H7217), W32(\H42B1, \H7218),
               W32(\H4400, 0), W32(\H447F, \HFFFF), W32(\H4480, 0),
               W32(\H7F80, 0), W32(\H7FC0, 0)}
  IN  mags \cup {WOr(m, W32(\H8000, 0)) : m \in mags}

\* 64-bit patterns on both sides of the bounds of expm1 and sinh
WordsExpm1 ==
  LET mags == {W64(0, 0, 0, 0), W64(0, 0, 0, 1),
               W64(\H3CC0, 0, 0, 0), W64(\H3CC0, 0, 0, 1),
               W64(\H3E4F, \HFFFF, \HFFFF, \HFFFF), W64(\H3E50, 0, 0, 0),
               W64(\H3FD6, \H2E42, \HFEFA, \H39EE),
               W64(\H3FD6, \H2E42, \HFEFA, \H39F0),
               W64(\H3FF0, 0, 0, 0), W64(\H4000, 0, 0, 0),
               W64(\H407F, \HFFFF, \HFFFF, \HFFFF), W64(\H4080, 0, 0, 0),
               W64(\H4086, \H2B7D, \H369A, \H5AA8),
               W64(\H4086, \H2B7D, \H369A, \H5AA9),
               W64(\H408F, \HFFFF, \HFFFF, \HFFFF), W64(\H4090, 0, 0, 0),
               W64(\H7FF0, 0, 0, 0), W64(\H7FF8, 0, 0, 0)}
  IN  mags \cup {WOr(m, W64(\H8000, 0, 0, 0)) : m \in mags}

\* 32-bit patterns on both sides of the bounds of logf, and others
Words32 ==
  LET mags == {W32(0, 0), W32(0, 1), W32(\H007F, \HFFFF), W32(\H0080, 0),
               W32(\H0080, 1), W32(\H1234, \H5678), W32(\H3F2A, \HAAAA),
               W32(\H3F2A, \HAAAB), W32(\H3F80, 0), W32(\H3FAA, \HAAAA),
               W32(\H3FAA, \HAAAB), W32(\H4B00, 0), W32(\H7F7F, \HFFFF),
               W32(\H7F80, 0), W32(\H7F80, 1), W32(\H7FC0, 0),
               W32(\H7FFF, \HFFFF)}
  IN  mags \cup {WOr(m, W32(\H8000, 0)) : m \in mags}

\* 64-bit patterns on both sides of the bounds of log10, exp, acos and tan
Words64 ==
  LET mags == {W64(0, 0, 0, 0), W64(0, 0, 0, 1),
               W64(\H000F, \HFFFF, \HFFFF, \HFFFF), W64(\H0010, 0, 0, 0),
               W64(\H1FFF, \HFFFF, \HFFFF, \HFFFF), W64(\H2000, 0, 0, 0),
               W64(\H3E4F, \HFFFF, \HFFFF, \HFFFF), W64(\H3E50, 0, 0, 0),
               W64(\H3FE6, \H9008, \HFFFF, \HFFFF),
               W64(\H3FE6, \H9009, 0, 0), W64(\H3FE7, \H2345, \H6789, \HABCD),
               W64(\H3FF0, 0, 0, 0), W64(\H3FF0, 0, 0, 1),
               W64(\H3FF6, \H9008, \HFFFF, \HFFFF),
               W64(\H3FF6, \H9009, 0, 0),
               W64(\H407F, \HFFFF, \HFFFF, \HFFFF), W64(\H4080, 0, 0, 0),
               W64(\H4160, 0, 0, 0), W64(\H4160, 0, 0, 1),
               W64(\H7FEF, \HFFFF, \HFFFF, \HFFFF), W64(\H7FF0, 0, 0, 0),
               W64(\H7FF8, 0, 0, 0), W64(\H7FFF, \HFFFF, \HFFFF, \HFFFF)}
  IN  mags \cup {WOr(m, W64(\H8000, 0, 0, 0)) : m \in mags}

\* integers k as 64-bit two's complement words, up to and past 2^51 in
\* magnitude
MagicKs ==
  LET pos == {W64(0, 0, 0, 1), W64(0, 0, 0, 127), W64(0, 0, 0, 128),
              W64(0, 0, 0, 129), W64(0, 0, 1, \H2345),
              W64(0, \H0123, \H4567, \H89AB), W64(\H0004, 0, 0, 0),
              W64(\H0007, \HFFFF, \HFFFF, \HFFFF), W64(\H0008, 0, 0, 1)}
  IN  {WZero(4)} \cup pos \cup {WSub(WZero(4), k) : k \in pos}

InitBits ==
  /\ kernel = "exp" /\ except = FALSE
  /\ arg1 = <<D(0), D(0)>> /\ arg2 = arg1 /\ pg = AllTrue(arg1)
  /\ pc = "idle"
  /\ special = <<>> /\ xm = <<>> /\ fast = <<>>
  /\ red = <<>> /\ pol = <<>> /\ yv = <<>>
  /\ res = <<>> /\ calls = <<>> /\ route = "none"
  /\ rep = 0 /\ prev = <<>>
  /\ data = DataInit /\ thr = <<>>
  /\ bits \in {[op |-> "none", w |-> w, out |-> <<>>] :
                  w \in Words32 \cup Words64 \cup MagicKs
                        \cup WordsExpm1f \cup WordsExpm1}

\* one integer step applied to the pattern
Apply(op, out) ==
  /\ bits.op = "none"
  /\ bits' = [op |-> op, w |-> bits.w, out |-> out]
  /\ UNCHANGED <<callvars, data, thr>>

\* the single comparison against two bounds lo <= hi
BitsRange ==
  \E lo \in Words32, hi \in Words32 :
    /\ bits.w \in Words32 /\ WLe(lo, hi)
    /\ Apply("range", [lo |-> lo, hi |-> hi,
                       ge |-> RangeGe(bits.w, lo, hi),
                       gt |-> RangeGt(bits.w, lo, hi)])

\* the classifiers of logf and log2f
BitsCmp32 ==
  /\ bits.w \in Words32
  /\ Apply("cmp", [logf |-> LogfCmp(bits.w)])

\* the classifiers of log10, SVE log2, exp, acos and tan
BitsCmp64 ==
  /\ bits.w \in Words64
  /\ Apply("cmp", [log10 |-> Log10Cmp(bits.w),
                   sv_log2 |-> SvLog2Cmp(TRUE, bits.w),
                   exp |-> ExpCmp(TRUE, bits.w),
                   acos |-> AcosSpecial(bits.w),
                   tan |-> TanSpecial(TRUE, bits.w)])

BitsLogfReduce ==
  /\ bits.w \in Words32
  /\ Apply("logf reduce", LogfReduce(bits.w))

BitsLogTabReduce ==
  /\ bits.w \in Words64
  /\ Apply("table reduce", LogTabReduce(bits.w))

\* the magic shift of exp (q = 0) and of exp2 (q = V_EXP_TABLE_BITS)
BitsMagic ==
  \E q \in {0, V_EXP_TABLE_BITS} :
    /\ bits.w \in MagicKs
    /\ Apply("magic", [q |-> q, u |-> MagicBits(bits.w, q)]
                       @@ MagicIndex(MagicBits(bits.w, q)))

\* values of the rounded quotient n on both sides of zero and of the
\* overflow bound 1280 * N
SplitNs ==
  {0, 1, -1, 1280 * Pow2(V_EXP_TABLE_BITS), 1280 * Pow2(V_EXP_TABLE_BITS) + 1,
   0 - 1280 * Pow2(V_EXP_TABLE_BITS), 0 - 1280 * Pow2(V_EXP_TABLE_BITS) - 1}

\* the two-step scaling of the overflow handlers of exp and exp2 on the
\* bits of the scale s
BitsExpSplit ==
  \E n \in SplitNs :
    /\ bits.w \in Words64
    /\ Apply("split", [n |-> n, cmp |-> ExpOverflow(n),
                       sel |-> IF ExpOverflow(n) THEN "r1" ELSE "r0"]
                       @@ ExpSplit(bits.w, n <= 0))

\* the classifier of sinhf and that of the expm1f kernel it calls, in either
\* build of expm1f
BitsSinhf ==
  \E ex \in BOOLEAN :
    /\ bits.w \in WordsExpm1f
    /\ Apply("sinhf", SinhfCall(ex, bits.w))

\* the construction of t = 2^i in expm1f, expm1 and sinh, in either build
BitsPow2 ==
  \E k \in Pow2Kernels, ex \in BOOLEAN :
    /\ bits.w \in (IF k = "expm1f" THEN WordsExpm1f ELSE WordsExpm1)
    /\ Apply("pow2", Pow2Lane(k, ex, bits.w))

NextBits ==
  \/ BitsExpSplit
  \/ BitsSinhf
  \/ BitsPow2
  \/ BitsRange
  \/ BitsCmp32
  \/ BitsCmp64
  \/ BitsLogfReduce
  \/ BitsLogTabReduce
  \/ BitsMagic

SpecBits == InitBits /\ [][NextBits]_vars

(* ------------------------------------------------------------------ *)
(* Properties                                                         *)
(* ------------------------------------------------------------------ *)

LaneSet == DOMAIN arg1

\* the scalar reference on the caller's input of lane l
Ref(l) == ScalarRef(kernel, Fmt(kernel), arg1[l], arg2[l])

\* the fast-path result of lane l on the input the fast path receives
FastOf(l) ==
  Fast(kernel, except, pg[l], MaskIn(kernel, except, arg1[l]), arg2[l]).y

InVal(l) == FromBits(Fmt(kernel), arg1[l])
InVal2(l) == FromBits(Fmt(kernel), arg2[l])

SomeFlagged == pc # "start" /\ \E l \in LaneSet : special[l]

\* C1 as stated, at the kernel exp: when a call is done every lane the
\* classifier flagged holds the scalar reference of the caller's input, and a
\* repeated call returns what the call before it returned.
C1_Original ==
  (pc = "done" /\ kernel = "exp") =>
    /\ \A l \in LaneSet : special[l] => res[l] = Ref(l)
    /\ rep > 0 => res = prev

\* C1 amended: where the scalar handler runs (every kernel but exp built
\* without WANT_SIMD_EXCEPT, SVE exp2 and SVE expf built without
\* SV_EXPF_USE_FEXPA, whose handlers are vector code making no scalar call),
\* each flagged lane holds the scalar reference of the caller's input;
\* erfc's short path returns fac in every lane without the handler, which is
\* the scalar reference for a flagged infinite lane; a repeated call returns
\* the same vector.
C1_Amended ==
  pc = "done" =>
    /\ (route \in {"special", "early"} /\ Handler(kernel, except) = "scalar")
         => \A l \in LaneSet : special[l] => res[l] = Ref(l)
    /\ (route = "special" /\ Handler(kernel, except) = "vector")
         => /\ (kernel = "exp" /\ ~except) \/ kernel \in {"sv_exp2", "sv_expf"}
            /\ calls = <<>>
            /\ \A l \in LaneSet :
                 res[l] = VectorCase(kernel, [red |-> red[l], pol |-> pol[l],
                                              y |-> yv[l]], special[l])
    /\ route = "short"
         => \A l \in LaneSet :
              /\ res[l] = ErfcFac(arg1[l])
              /\ (special[l] /\ IsInf(InVal(l))) => res[l] = Ref(l)
    /\ rep > 0 => res = prev

\* a second call of exp with exceptions, a flagged lane masked with the dummy
\* and delivered by the scalar routine on the caller's input
C1_Witness ==
  /\ pc = "done" /\ kernel = "exp" /\ except /\ rep > 0 /\ route = "special"
  /\ \E l \in LaneSet :
       /\ special[l] /\ xm[l] # arg1[l] /\ IsTerm(res[l]) /\ res[l] = Ref(l)

C3_NaN ==
  pc = "done" =>
    \A l \in LaneSet :
      (pg[l] /\ (IsNaN(InVal(l)) \/ (kernel = "atan2" /\ IsNaN(InVal2(l)))))
        => IsNaN(res[l])

\* the inputs that agree with the call's in lane l and differ in one other lane
AltInputs(l) ==
  {[a1 |-> [arg1 EXCEPT ![m] = w],
    a2 |-> IF kernel = "atan2" THEN [arg2 EXCEPT ![m] = w2]
           ELSE [arg1 EXCEPT ![m] = w],
    pg |-> [pg EXCEPT ![m] = b]] :
     m \in LaneSet \ {l}, w \in Samples(kernel),
     w2 \in (IF kernel = "atan2" THEN Samples2 ELSE {<<>>}),
     b \in (IF IsSve(kernel) THEN BOOLEAN ELSE {TRUE})}

C5_Original ==
  (pc = "done" /\ kernel = "exp") =>
    /\ (\E l \in LaneSet : special[l]) <=> (calls # <<>>)
    /\ (~\E l \in LaneSet : special[l])
         => \A l \in LaneSet : res[l] = FastOf(l)

\* C5 amended: with no lane flagged no scalar call is made and the vector
\* returned is the fast path's (from erfc's short path, fac, which is what
\* the fast path gives out of bounds). With a lane flagged the scalar routine
\* is called for every flagged lane before the return, except in exp built
\* without WANT_SIMD_EXCEPT, SVE exp2 and SVE expf (default build), whose
\* handlers are vector code, and in erfc when all lanes are out of bounds and
\* some lane is not special, which returns fac at once.
C5_Amended ==
  pc = "done" =>
    /\ (~\E l \in LaneSet : special[l])
         => /\ calls = <<>> /\ route \in {"fast", "short"}
            /\ \A l \in LaneSet : res[l] = FastOf(l)
    /\ (\E l \in LaneSet : special[l])
         => IF Handler(kernel, except) = "vector"
              THEN route = "special" /\ calls = <<>>
            ELSE IF kernel = "erfc" /\ ErfcShort(arg1)
              THEN route = "short" /\ calls = <<>>
            ELSE /\ route \in {"special", "early"}
                 /\ \A l \in LaneSet :
                      special[l] => \E i \in DOMAIN calls : calls[i].lane = l

\* some but not all lanes flagged, and a scalar call made for each of them
C5_Witness ==
  /\ pc = "done" /\ route = "special"
  /\ \E l, m \in LaneSet : special[l] /\ ~special[m]
  /\ calls # <<>> /\ Len(calls) < Len(arg1)
  /\ \A i \in DOMAIN calls : special[calls[i].lane]

\* the dummy a kernel writes over special lanes under WANT_SIMD_EXCEPT
DummyBits(k) ==
  CASE k = "exp" -> D(\H3FF0)
    [] k = "log1p" -> D(0)
    [] k = "tanf" -> S(\H3F80)

\* C6 as stated: in a build with WANT_SIMD_EXCEPT, once the reduction has run
\* every flagged lane's input had been replaced by a dummy, and every scalar
\* call receives the caller's input of its lane.
C6_Original ==
  except =>
    /\ red # <<>> => \A l \in LaneSet : special[l] => xm[l] # arg1[l]
    /\ \A i \in DOMAIN calls : calls[i].a = arg1[calls[i].lane]

\* C6 amended: in a build with WANT_SIMD_EXCEPT, exp, log1p and tanf write a
\* dummy (1, 0, 1) over every flagged lane before the reduction and leave the
\* other lanes alone; sinh, tan, acos and expm1 write no dummy but return from
\* the scalar routine before any fast-path arithmetic when a lane is flagged;
\* logf, erfc, atan2 and sv_sin have no WANT_SIMD_EXCEPT branch and run the
\* fast path on every lane's true input. Every scalar call receives the
\* caller's input of its lane.
C6_Amended ==
  (except /\ pc # "start") =>
    /\ Dummied(kernel)
         => \A l \in LaneSet :
              xm[l] = IF special[l] THEN DummyBits(kernel) ELSE arg1[l]
    /\ (AllLanes(kernel, except) /\ \E l \in LaneSet : special[l])
         => red = <<>> /\ pol = <<>> /\ yv = <<>> /\ xm = arg1
    /\ kernel \in {"logf", "erfc", "atan2", "sv_sin"}
         => /\ xm = arg1
            /\ (pc = "done" /\ route = "special") => red # <<>>
    /\ \A i \in DOMAIN calls :
         /\ calls[i].a = arg1[calls[i].lane]
         /\ calls[i].a2 = arg2[calls[i].lane]

\* tanf with exceptions: a flagged lane went through the fast path as 1.0f
\* and through the scalar routine as the caller's input
C6_Witness ==
  /\ except /\ kernel = "tanf" /\ pc = "done" /\ route = "special"
  /\ \E l \in LaneSet :
       /\ special[l] /\ xm[l] = S(\H3F80) /\ arg1[l] # S(\H3F80)
       /\ \E i \in DOMAIN calls : calls[i].lane = l /\ calls[i].a = arg1[l]

\* C7: whenever erfc looks its tables up, the index of every lane is within
\* 0 .. ERFC_NUM_INTERVALS, for NaN, infinite and large finite lanes too.
C7_IndexInRange ==
  (kernel = "erfc" /\ red # <<>>) =>
    \A l \in LaneSet :
      /\ WLe(red[l].i, WOf(4, ERFC_NUM_INTERVALS))
      /\ WVal(red[l].i) \in 0 .. ERFC_NUM_INTERVALS

\* a lane whose exponent difference exceeds the table and was clamped
C7_Witness ==
  /\ kernel = "erfc" /\ red # <<>>
  /\ \E l \in LaneSet :
       /\ WGt(ErfcRawIndex(arg1[l]), WOf(4, ERFC_NUM_INTERVALS))
       /\ red[l].i = WOf(4, ERFC_NUM_INTERVALS)

\* |x| > 1, infinities included
AbsGtOne(w) ==
  LET v == FromBits(F64, w)
  IN  IsInf(v) \/ (IsExact(v) /\ FGt(FAbs(v), One(F64)))

\* C8 as stated: in acos every lane with |x| > 1 is flagged and its NaN comes
\* from a scalar call, in both builds.
C8_Original ==
  (kernel = "acos" /\ pc = "done") =>
    \A l \in LaneSet :
      AbsGtOne(arg1[l])
        => /\ special[l] /\ IsNaN(res[l])
           /\ \E i \in DOMAIN calls : calls[i].lane = l

\* C8 amended: in acos every lane with |x| > 1 returns NaN. Built with
\* WANT_SIMD_EXCEPT the lane is flagged and the scalar routine delivers the
\* NaN (for every lane of the call); built without it there is no classifier
\* and no scalar call, and the NaN is the fast path's own, from the square
\* root of the negative (1 - |x|) / 2.
C8_Amended ==
  (kernel = "acos" /\ pc = "done") =>
    \A l \in LaneSet :
      AbsGtOne(arg1[l])
        => /\ IsNaN(res[l])
           /\ except => /\ special[l] /\ route = "early"
                        /\ \E i \in DOMAIN calls :
                             calls[i].lane = l /\ calls[i].a = arg1[l]
           /\ ~except => /\ ~special[l] /\ route = "fast" /\ calls = <<>>
                         /\ IsNaN(red[l].z) /\ IsNaN(yv[l])

\* acos without exceptions returned NaN for |x| > 1 with no scalar call
C8_Witness ==
  /\ kernel = "acos" /\ ~except /\ pc = "done" /\ calls = <<>>
  /\ \E l \in LaneSet : AbsGtOne(arg1[l]) /\ IsNaN(res[l])

\* bit patterns on both sides of every boundary of zeroinfnan
ZinPatterns ==
  LET mags == { W64(0, 0, 0, 0), W64(0, 0, 0, 1), W64(\H000F, \HFFFF, \HFFFF, \HFFFF),
                W64(\H0010, 0, 0, 0), W64(\H3FF0, 0, 0, 0), W64(\H4014, 0, 0, 0),
                W64(\H7FEF, \HFFFF, \HFFFF, \HFFFF), W64(\H7FF0, 0, 0, 0),
                W64(\H7FF0, 0, 0, 1), W64(\H7FF8, 0, 0, 0),
                W64(\H7FFF, \HFFFF, \HFFFF, \HFFFF) }
  IN  mags \cup { WOr(m, W64(\H8000, 0, 0, 0)) : m \in mags }

\* the pattern encodes +/-0, +/-Inf or a NaN
IsZeroInfNan(w) ==
  LET v == FromBits(F64, w)
  IN  IsZero(v) \/ IsInf(v) \/ IsNaN(v)

\* C9: zeroinfnan(i) is true exactly for the patterns of +/-0, +/-Inf and NaN;
\* a lane of atan2 is flagged iff y or x is zero, infinite or NaN; a flagged
\* lane holds the scalar atan2 of (y, x) in that order, delivered by a scalar
\* call on that lane; and atan2(5.0, 0.0) is pi/2.
C9_Atan2 ==
  /\ kernel = "atan2" =>
       \A w \in ZinPatterns : zeroinfnan(w) <=> IsZeroInfNan(w)
  /\ (kernel = "atan2" /\ pc # "start") =>
       \A l \in LaneSet :
         special[l] <=> (IsZeroInfNan(arg1[l]) \/ IsZeroInfNan(arg2[l]))
  /\ (kernel = "atan2" /\ pc = "done") =>
       \A l \in LaneSet :
         /\ special[l] =>
              /\ res[l] = ScalarRef("atan2", F64, arg1[l], arg2[l])
              /\ \E i \in DOMAIN calls :
                   /\ calls[i].lane = l
                   /\ calls[i].a = arg1[l] /\ calls[i].a2 = arg2[l]
         /\ (arg1[l] = D(\H4014) /\ arg2[l] = D(0)) =>
              res[l] = K64(\H3FF9, \H21FB, \H5444, \H2D18)

\* atan2(5.0, 0.0) was flagged and returned from the scalar call as pi/2
C9_Witness ==
  /\ kernel = "atan2" /\ pc = "done" /\ route = "special"
  /\ \E l \in LaneSet :
       /\ arg1[l] = D(\H4014) /\ arg2[l] = D(0) /\ special[l]
       /\ res[l] = K64(\H3FF9, \H21FB, \H5444, \H2D18)
       /\ \E i \in DOMAIN calls : calls[i].lane = l

\* the input vector with the sign bit of lane l flipped
NegLane(l) ==
  [j \in DOMAIN arg1 |->
     IF j = l THEN WithSign(arg1[j], 1 - SignBit(arg1[j])) ELSE arg1[j]]

\* C10: in sin, sinh and tan, for a finite lane that the classifier does not
\* flag, the result for -x is the result for x with the sign flipped.
C10_Odd ==
  (pc = "done" /\ kernel \in {"sv_sin", "sinh", "tan"}) =>
    \A l \in LaneSet :
      (pg[l] /\ InVal(l).c = "fin" /\ ~special[l])
        => /\ ~Flag(kernel, except, pg[l], NegLane(l)[l], NegLane(l)[l])
           /\ KernelResult(kernel, except, pg, NegLane(l), NegLane(l))[l]
                = FNeg(res[l])

\* tan returned a fast-path result for a finite nonzero lane
C10_Witness ==
  /\ pc = "done" /\ kernel = "tan" /\ route = "fast"
  /\ \E l \in LaneSet :
       /\ InVal(l).c = "fin" /\ ~IsZero(InVal(l)) /\ ~special[l]
       /\ res[l].c = "fin" /\ ~IsExact(res[l])
       /\ KernelResult(kernel, except, pg, NegLane(l), NegLane(l))[l].s
            = 1 - res[l].s

\* the kernels whose scalar routine is a logarithm
LogFamily == {"logf", "log2f", "log10", "sv_logf", "sv_log10f", "sv_log2"}

\* the lanes of a log-family call that hold 1.0 and are active
OneLanes ==
  {l \in LaneSet : kernel \in LogFamily /\ pg[l]
                   /\ arg1[l] = ToBits(Fmt(kernel), One(Fmt(kernel)))}

C12_Acos ==
  LET Half == Num(0, 1, -1)
      PiOver2 == K64(\H3FF9, \H21FB, \H5444, \H2D18)
      Pi == K64(\H4009, \H21FB, \H5444, \H2D18)
  IN  kernel = "acos" =>
        \A l \in LaneSet :
          /\ (pc \in {"reduced", "poly", "reconstructed"}
              /\ ~IsNaN(InVal(l)))
               => /\ FLe(FAbs(InVal(l)), Half)
                       => red[l].add = PiOver2 /\ red[l].mul = Num(1, 1, 0)
                  /\ FGt(InVal(l), Half)
                       => red[l].add = Zero(0) /\ red[l].mul = Num(0, 1, 1)
                  /\ FLt(InVal(l), FNeg(Half))
                       => red[l].add = Pi /\ red[l].mul = Num(0, 1, 1)
          /\ (pc = "reconstructed" /\ ~IsNaN(pol[l]))
               => yv[l] = FFma(F64, red[l].add, red[l].mul,
                               [FAbs(pol[l]) EXCEPT !.s = SignBit(arg1[l])])
          /\ (pc = "done" /\ route = "fast")
               => /\ arg1[l] = D(\H3FF0) => res[l] = Zero(0)
                  /\ arg1[l] = D(\HBFF0) => res[l] = Pi
                  /\ IsZero(InVal(l)) => res[l] = PiOver2

\* the fast path returned Pi for -1.0 next to +0 for 1.0
C12_Witness ==
  /\ kernel = "acos" /\ pc = "done" /\ route = "fast"
  /\ arg1 = <<D(\HBFF0), D(\H3FF0)>>
  /\ res = <<K64(\H4009, \H21FB, \H5444, \H2D18), Zero(0)>>
  /\ red[1].add = K64(\H4009, \H21FB, \H5444, \H2D18)
  /\ red[2].add = Zero(0)

Expm1Family == {"expm1", "expm1f"}

PlusZero(l) == arg1[l] = (IF Fmt(kernel) = F32 THEN S(0) ELSE D(0))
MinusZero(l) == arg1[l] = (IF Fmt(kernel) = F32 THEN S(\H8000) ELSE D(\H8000))

\* C13: expm1 and expm1f return +0 for a lane of +0: where the fast path runs
\* the reduction gives i = 0 and f = +0, t is 1.0 and p * t + (t - 1) is +0;
\* a lane of -0 is flagged in both builds, is passed to the scalar routine and
\* holds the scalar routine's value.
C13_Expm1Zero ==
  kernel \in Expm1Family =>
    \A l \in LaneSet :
      /\ (PlusZero(l) /\ pc \in {"reduced", "poly", "reconstructed"})
           => /\ IsZero(red[l].n)
              /\ red[l].f = Zero(0)
              /\ red[l].t = One(Fmt(kernel))
      /\ (PlusZero(l) /\ pc = "reconstructed") => yv[l] = Zero(0)
      /\ (PlusZero(l) /\ pc = "done") => res[l] = Zero(0)
      /\ (MinusZero(l) /\ pc # "start") => special[l]
      /\ (MinusZero(l) /\ pc = "done")
           => /\ route \in {"early", "special"}
              /\ \E c \in 1..Len(calls) :
                   calls[c].lane = l /\ calls[c].a = arg1[l]
              /\ res[l] = Ref(l)

\* the fast build of expm1f computed +0 for a +0 lane while the -0 lane next
\* to it went to the scalar routine
C13_Witness ==
  /\ kernel = "expm1f" /\ ~except /\ pc = "done" /\ route = "special"
  /\ PlusZero(1) /\ MinusZero(2)
  /\ yv[1] = Zero(0) /\ res[1] = Zero(0) /\ res[2] = Zero(1)
  /\ red[1].t = One(F32)

\* the result of the call of thread t run alone
Alone(t) ==
  LET c == thr[t].call
  IN  KernelResult(c.k, c.ex, AllTrue(c.x), c.x, c.x)

Classified == special # <<>>
Reduced == red # <<>>
Evaluated == pol # <<>>
Reconstructed == yv # <<>>

\* a stage has run only after the stages before it
StageOrder ==
  /\ Reduced => Classified
  /\ Evaluated => Reduced
  /\ Reconstructed => Evaluated
  /\ pc # "done" => calls = <<>> /\ res = <<>>

EarlyKernels ==
  {"sinh", "tan"} \cup (IF except THEN {"acos", "expm1", "expm1f"} ELSE {})

PosNormal(F, w) ==
  SignBit(w) = 0 /\ ExpField(F, w) >= 1 /\ ExpField(F, w) <= EField(F) - 1

\* C17: for lo <= hi the single comparison a - lo >= hi - lo (modulo 2^w)
\* holds exactly when a < lo or a >= hi, and the strict form exactly when
\* a < lo or a > hi; the classifier of logf and log2f and the classifiers of
\* log10 and SVE log2 flag exactly the patterns that are no positive normal
\* number; exp built with WANT_SIMD_EXCEPT flags exactly |x| < 2^-511 and
\* |x| >= 2^9, Inf and NaN included; acos and tan built with it flag exactly
\* the magnitudes below the lower and above the upper bound.
C17_SingleCmp ==
  LET w == bits.w
      o == bits.out
      ia == WithSign(w, 0)
  IN  /\ bits.op = "range"
           => /\ o.ge <=> (WLt(w, o.lo) \/ WGe(w, o.hi))
              /\ o.gt <=> (WLt(w, o.lo) \/ WGt(w, o.hi))
      /\ (bits.op = "cmp" /\ Len(w) = 2)
           => (o.logf <=> ~PosNormal(F32, w))
      /\ (bits.op = "cmp" /\ Len(w) = 4)
           => /\ o.log10 <=> ~PosNormal(F64, w)
              /\ o.sv_log2 <=> ~PosNormal(F64, w)
              /\ o.exp <=> (ExpField(F64, w) < 1023 - 511
                            \/ ExpField(F64, w) >= 1023 + 9)
              /\ o.acos <=> (WLt(ia, W64(\H3E50, 0, 0, 0))
                             \/ WGt(ia, W64(\H3FF0, 0, 0, 0)))
              /\ o.tan <=> (WLt(ia, W64(\H3E50, 0, 0, 0))
                            \/ WGt(ia, W64(\H4160, 0, 0, 0)))

\* the largest subnormal is below Min: the difference wraps and logf flags it
C17_Witness ==
  /\ bits.op = "cmp" /\ bits.w = W32(\H007F, \HFFFF)
  /\ bits.out.logf
  /\ WGe(WSub(bits.w, W32(\H0080, 0)), W32(\H7F00, 0))

\* the value of a two's-complement word of small magnitude
SInt(n) ==
  IF SignBit(n) = 1 THEN 0 - WVal(WSub(WZero(Len(n)), n)) ELSE WVal(n)

\* 2/3 <= v < 4/3 for an exact v = m * 2^e: 2 <= 3 * m * 2^e < 4
InTwoThirds(v) ==
  /\ IsExact(v) /\ v.s = 0 /\ Expo(v) <= 0
  /\ Pow2(1 - Expo(v)) <= 3 * Mant(v)
  /\ 3 * Mant(v) < Pow2(2 - Expo(v))

\* C18: the reduction of logf, log2f and SVE log10f splits every 32-bit
\* pattern u exactly: the reduced pattern lies in [Off, Off + 2^23) and is a
\* float in [2/3, 4/3), u is the reduced pattern plus n * 2^23 modulo 2^32,
\* and -126 <= n <= 128 for every pattern the classifier does not flag.
C18_LogfReduce ==
  LET Off == W32(\H3F2A, \HAAAB)
      r == bits.out
      v == FromBits(F32, r.u)
  IN  bits.op = "logf reduce"
        => /\ WGe(r.u, Off) /\ WLt(r.u, WAdd(Off, W32(\H0080, 0)))
           /\ InTwoThirds(v)
           /\ bits.w = WAdd(r.u, WShl(r.n, 23))
           /\ ~LogfCmp(bits.w) => SInt(r.n) >= -126 /\ SInt(r.n) <= 128

\* the smallest normal number reduces with n = -126
C18_Witness ==
  /\ bits.op = "logf reduce" /\ bits.w = W32(\H0080, 0)
  /\ ~LogfCmp(bits.w)
  /\ SInt(bits.out.n) = -126
  /\ bits.out.u = W32(\H3F80, 0)

\* C19: the table reduction of log10 and SVE log2 splits every 64-bit
\* pattern ix exactly: iz lies in [OFF, OFF + 2^52), ix is iz plus k * 2^52
\* modulo 2^64, the index i is the top V_LOG10_TABLE_BITS bits of iz - OFF,
\* so 0 <= i <= N - 1, and the gather offsets 2i and 2i + 1 of SVE log2 stay
\* below the 2N values of the N-entry table.
C19_LogTabReduce ==
  LET OFF == W64(\H3FE6, \H9009, 0, 0)
      N == Pow2(V_LOG10_TABLE_BITS)
      r == bits.out
  IN  bits.op = "table reduce"
        => /\ WGe(r.iz, OFF) /\ WLt(r.iz, WAdd(OFF, WPow2(52)))
           /\ bits.w = WAdd(r.iz, WShl(r.k, 52))
           /\ r.i = WShr(WSub(r.iz, OFF), 52 - V_LOG10_TABLE_BITS)
           /\ WSmall(r.i) /\ WVal(r.i) >= 0 /\ WVal(r.i) <= N - 1
           /\ 2 * WVal(r.i) + 1 < 2 * N

\* the pattern just below OFF reduces with k = -1 and the last index
C19_Witness ==
  /\ bits.op = "table reduce"
  /\ bits.w = W64(\H3FE6, \H9008, \HFFFF, \HFFFF)
  /\ WVal(bits.out.i) = Pow2(V_LOG10_TABLE_BITS) - 1
  /\ SInt(bits.out.k) = -1
  /\ bits.out.iz = W64(\H3FF6, \H9008, \HFFFF, \HFFFF)

\* -2^51 < k < 2^51 for a two's-complement word k
InMagicRange(k) ==
  WAdd(k, WPow2(51)) # WZero(4) /\ WLt(WAdd(k, WPow2(51)), WPow2(52))

\* asuint64 (Shift) for Shift = 1.5 * 2^52 / 2^q
ShiftBits(q) == WSub(W64(\H4338, 0, 0, 0), WShl(WOf(4, q), 52))

\* C20: for every integer k with |k| < 2^51 the bit pattern of Shift + k
\* (of Shift + k / N for the Shift of exp2) is asuint64 (Shift) + k modulo
\* 2^64; the index u & (N - 1) is k mod N, in [0, N - 1] for negative k too,
\* and u << (52 - V_EXP_TABLE_BITS) is k * 2^(52 - V_EXP_TABLE_BITS) modulo
\* 2^64, with nothing left of the bits of Shift.
C20_MagicShift ==
  LET k == bits.w
      o == bits.out
      N == Pow2(V_EXP_TABLE_BITS)
  IN  (bits.op = "magic" /\ InMagicRange(k))
        => /\ o.u = WAdd(ShiftBits(o.q), k)
           /\ WSmall(o.i) /\ WVal(o.i) = k[1] % N
           /\ WVal(o.i) >= 0 /\ WVal(o.i) <= N - 1
           /\ o.e = WShl(k, 52 - V_EXP_TABLE_BITS)
           /\ WShl(ShiftBits(o.q), 52 - V_EXP_TABLE_BITS) = WZero(4)

\* k = -1 in exp: u is one below asuint64 (Shift) and the index is N - 1
C20_Witness ==
  /\ bits.op = "magic" /\ bits.out.q = 0
  /\ bits.w = W64(\HFFFF, \HFFFF, \HFFFF, \HFFFF)
  /\ bits.out.u = W64(\H4337, \HFFFF, \HFFFF, \HFFFF)
  /\ WVal(bits.out.i) = Pow2(V_EXP_TABLE_BITS) - 1
  /\ bits.out.e = W64(\HFFFF, \HE000, 0, 0)

\* C21: in the overflow handlers of exp and exp2 s1 has the bits
\* 0x7000000000000000 (2^769) for n > 0 and 0x1000000000000000 (2^-767) for
\* n <= 0, the bits of s2 are those of s minus 0x3010000000000000 plus b, in
\* both cases bits(s1) + bits(s2) - bits(s) is asuint64 (1.0) modulo 2^64,
\* and s1 * s1 is selected only where |n| is above the overflow bound.
C21_ExpSplit ==
  LET o == bits.out
  IN  bits.op = "split"
        => /\ o.n > 0 => o.s1 = W64(\H7000, 0, 0, 0) /\ o.b = WZero(4)
           /\ o.n <= 0 => /\ o.s1 = W64(\H1000, 0, 0, 0)
                          /\ o.b = W64(\H6000, 0, 0, 0)
           /\ FromBits(F64, o.s1) = Num(0, 1, IF o.n > 0 THEN 769 ELSE -767)
           /\ o.s2 = WAdd(WSub(bits.w, W64(\H3010, 0, 0, 0)), o.b)
           /\ WSub(WAdd(o.s1, o.s2), bits.w) = W64(\H3FF0, 0, 0, 0)
           /\ o.sel = "r1" => (o.n > 1280 * Pow2(V_EXP_TABLE_BITS)
                               \/ o.n < 0 - 1280 * Pow2(V_EXP_TABLE_BITS))

\* the scale 1.0 with n = -1: s1 = 2^-767 and s2 = 2^767, r0 is selected
C21_Witness ==
  /\ bits.op = "split" /\ bits.w = W64(\H3FF0, 0, 0, 0) /\ bits.out.n = -1
  /\ bits.out.s1 = W64(\H1000, 0, 0, 0)
  /\ bits.out.s2 = W64(\H6FE0, 0, 0, 0)
  /\ bits.out.sel = "r0"

TanFamily == {"tan", "tanf", "sv_tanf"}

\* the input of a lane as the fast path of its kernel receives it
FastIn(l) == FromBits(Fmt(kernel), xm[l])

\* a small integer x, for which round (x / (pi/2)) follows from
\* 0.636619 < 2/pi < 0.636620
QuotKnown(v) ==
  /\ IsExact(v) /\ Expo(v) >= 0 /\ Expo(v) <= 9 /\ Mant(v) <= 1000
  /\ Mant(v) * Pow2(Expo(v)) <= 1000
  /\ (2 * Mant(v) * Pow2(Expo(v)) * 636619 + 1000000) \div 2000000
       = (2 * Mant(v) * Pow2(Expo(v)) * 636620 + 1000000) \div 2000000

\* the magnitude of round (x / (pi/2))
QuotOf(v) == (2 * Mant(v) * Pow2(Expo(v)) * 636619 + 1000000) \div 2000000

\* double tan: -d / n and n / d for p ~ tan (r/2), n = p^2 - 1, d = 2p
TanEven(p) ==
  FDiv(F64, FNeg(FMul(F64, p, Num(0, 1, 1))), FFma(F64, Num(1, 1, 0), p, p))
TanOdd(p) ==
  FDiv(F64, FFma(F64, Num(1, 1, 0), p, p), FMul(F64, p, Num(0, 1, 1)))

\* float tan: the polynomial value z + z^3 * P (z^2) as each kernel sums it
TanfPoly(k, z, p) ==
  IF k = "tanf" THEN FFma(F32, z, FMul(F32, z, FMul(F32, z, z)), p)
  ELSE FFma(F32, z, p, FMul(F32, z, FMul(F32, z, z)))

\* the value the parity of q selects for lane l
TanBranch(l) ==
  LET even == QuotOf(FastIn(l)) % 2 = 0
  IN  IF kernel = "tan"
        THEN (IF even THEN TanEven(pol[l]) ELSE TanOdd(pol[l]))
      ELSE IF even THEN TanfPoly(kernel, red[l].r, pol[l])
      ELSE FDiv(F32, One(F32), TanfPoly(kernel, FNeg(red[l].r), pol[l]))

MinusZeroIn(l) == IsZero(FastIn(l)) /\ FastIn(l).s = 1

\* C22 as stated: the fast path of every active lane of the tan kernels holds
\* the value that the parity of q = round (x / (pi/2)) selects: -d / n for an
\* even and n / d for an odd q in double tan, the polynomial value tan (r) for
\* an even q and 1 / tan (-r) for an odd q in float tan.
C22_Original ==
  (kernel \in TanFamily /\ pc = "reconstructed")
    => \A l \in LaneSet :
         (pg[l] /\ QuotKnown(FastIn(l))) => yv[l] = TanBranch(l)

\* C22: the fast path of every active lane of the tan kernels holds the value
\* that the parity of q = round (x / (pi/2)) selects: -d / n for an even and
\* n / d for an odd q in double tan, the polynomial value tan (r) for an even
\* q and 1 / tan (-r) for an odd q in float tan, except that a lane of float
\* tan whose input is -0 holds its input, -0, and not the polynomial value +0.
C22_TanParity ==
  (kernel \in TanFamily /\ pc = "reconstructed")
    => \A l \in LaneSet :
         /\ (pg[l] /\ QuotKnown(FastIn(l))
               /\ ~(kernel # "tan" /\ MinusZeroIn(l)))
              => yv[l] = TanBranch(l)
         /\ (pg[l] /\ kernel # "tan" /\ MinusZeroIn(l))
              => yv[l] = Zero(1) /\ TanBranch(l) = Zero(0)

\* double tan on 1.0 (q = 1) and 3.0 (q = 2): n / d next to -d / n
C22_Witness ==
  /\ kernel = "tan" /\ pc = "reconstructed"
  /\ arg1 = <<D(\H3FF0), D(\H4008)>>
  /\ QuotOf(FastIn(1)) = 1 /\ QuotOf(FastIn(2)) = 2
  /\ yv[1] = TanOdd(pol[1]) /\ yv[2] = TanEven(pol[2])
  /\ yv[1] # TanEven(pol[1])

\* C23: in float tan built without exceptions and in SVE float tan a call
\* returns, in every active lane whose input is +0 or -0, the bit pattern of
\* that input: the lane is not flagged, and it keeps its input where other
\* lanes are passed to the scalar routine.
C23_TanfZero ==
  ((kernel = "tanf" /\ ~except) \/ kernel = "sv_tanf")
    => \A l \in LaneSet :
         (pg[l] /\ IsZero(InVal(l)))
           => /\ pc # "start" => ~special[l]
              /\ pc = "reconstructed" => yv[l] = InVal(l)
              /\ pc = "done" => /\ ToBits(F32, res[l]) = arg1[l]
                                /\ res[l].s = SignBit(arg1[l])
                                /\ \A c \in 1..Len(calls) : calls[c].lane # l

\* SVE float tan on -0 next to 2^16: -0 is returned beside the scalar value
C23_Witness ==
  /\ kernel = "sv_tanf" /\ pc = "done" /\ route = "special"
  /\ arg1 = <<S(\H8000), S(\H4780)>> /\ pg = <<TRUE, TRUE>>
  /\ res[1] = Zero(1) /\ ToBits(F32, res[1]) = S(\H8000)
  /\ red[1].r = Zero(0)
  /\ Len(calls) = 1 /\ calls[1].lane = 2

\* the integer k as a double
NumInt(k) == IF k < 0 THEN Num(1, 0 - k, 0) ELSE Num(0, k, 0)

\* -2 * [x < 0] + [|y| > |x|] for lane l of atan2 (y, x)
Atan2Quadrant(l) ==
  (IF FLt(InVal2(l), Zero(0)) THEN -2 ELSE 0)
    + (IF FGt(FAbs(InVal(l)), FAbs(InVal2(l))) THEN 1 ELSE 0)

\* C24: in atan2 (y, x) the quotient given to the polynomial is -|x| / |y|
\* where |y| > |x| and |y| / |x| elsewhere, the offset is
\* (-2 * [x < 0] + [|y| > |x|]) * PiOver2, one of -2, -1, 0, 1 times PiOver2,
\* and the fast path's value is the sum of the polynomial and the offset with
\* its sign bit flipped where the sign bits of x and y differ.
C24_Atan2Quadrant ==
  (kernel = "atan2" /\ pc \in {"reduced", "poly", "reconstructed"})
    => \A l \in LaneSet :
         LET y == InVal(l)
             x == InVal2(l)
             swap == FGt(FAbs(y), FAbs(x))
         IN  /\ red[l].z = IF swap THEN FDiv(F64, FNeg(FAbs(x)), FAbs(y))
                           ELSE FDiv(F64, FAbs(y), FAbs(x))
             /\ Atan2Quadrant(l) \in {-2, -1, 0, 1}
             /\ red[l].shift
                  = FMul(F64, NumInt(Atan2Quadrant(l)),
                         K64(\H3FF9, \H21FB, \H5444, \H2D18))
             /\ (IsExact(x) /\ IsExact(y) /\ ~IsZero(x) /\ ~IsZero(y))
                  => red[l].z.s = (IF swap THEN 1 ELSE 0)
             /\ pc = "reconstructed"
                  => /\ pol[l] = Opq("eval_poly", <<red[l].z, red[l].shift>>)
                     /\ ~IsNaN(pol[l])
                          => /\ yv[l].t = pol[l].t
                             /\ yv[l].s = Xor1(pol[l].s,
                                               Xor1(SignBit(arg1[l]),
                                                    SignBit(arg2[l])))

\* atan2 (5, -2) next to atan2 (-1, 2): -2/5 with -PiOver2 and a flipped
\* sign, 1/2 with offset 0 and a flipped sign
C24_Witness ==
  /\ kernel = "atan2" /\ pc = "reconstructed"
  /\ arg1 = <<D(\H4014), D(\HBFF0)>> /\ arg2 = <<D(\HC000), D(\H4000)>>
  /\ Atan2Quadrant(1) = -1 /\ Atan2Quadrant(2) = 0
  /\ red[1].z = FDiv(F64, Num(1, 1, 1), Num(0, 5, 0))
  /\ red[1].shift = FNeg(FMul(F64, One(F64),
                               K64(\H3FF9, \H21FB, \H5444, \H2D18)))
  /\ red[2].z = Num(0, 1, -1) /\ red[2].shift = Zero(0)
  /\ yv[1].s = 1 - pol[1].s /\ yv[2].s = 1 - pol[2].s

\* the biased exponent of a double's bit pattern
BiasedExp(w) == (w[4] % 32768) \div 16

\* C25: a call of erfc takes the short path exactly when the biased exponent
\* of every lane is at least 0x404 and some lane is not flagged, a flagged
\* lane being one with a biased exponent below 0x3cd or equal to 0x7ff; every
\* lane then returns the value with the bits (sign bit << 62): +0 for a clear
\* sign bit and 2 for a set one, and no scalar call is made.
C25_ErfcShortPath ==
  (kernel = "erfc" /\ pc = "done")
    => /\ \A l \in LaneSet :
            special[l] <=> (BiasedExp(arg1[l]) < 973
                            \/ BiasedExp(arg1[l]) = 2047)
       /\ route = "short"
            <=> /\ \A l \in LaneSet : BiasedExp(arg1[l]) >= 1028
                /\ \E l \in LaneSet : ~special[l]
       /\ route = "short"
            => /\ calls = <<>>
               /\ \A l \in LaneSet :
                    /\ res[l] = (IF SignBit(arg1[l]) = 1 THEN Num(0, 1, 1)
                                 ELSE Zero(0))
                    /\ ToBits(F64, res[l])
                         = (IF SignBit(arg1[l]) = 1 THEN D(\H4000) ELSE D(0))

\* erfc on -40 next to +Inf: the short path returns 2 and +0
C25_Witness ==
  /\ kernel = "erfc" /\ pc = "done" /\ route = "short"
  /\ arg1 = <<D(\HC044), D(\H7FF0)>>
  /\ special = <<FALSE, TRUE>>
  /\ res = <<Num(0, 1, 1), Zero(0)>>
  /\ calls = <<>>

\* C26: in every SVE kernel the special-case predicate is a subset of the
\* governing predicate: a lane that is inactive in pg is not flagged, whatever
\* its contents, and no scalar call is made for it; the scalar calls are made
\* for flagged, hence active, lanes only.
C26_SveSubset ==
  (IsSve(kernel) /\ pc # "start")
    => /\ \A l \in LaneSet : special[l] => pg[l]
       /\ \A l \in LaneSet :
            ~pg[l] => Flag(kernel, except, pg[l], arg1[l], arg2[l]) = FALSE
       /\ \A c \in 1..Len(calls) :
            pg[calls[c].lane] /\ special[calls[c].lane]

\* SVE float tan on {2^16, 2^16} with lane 1 inactive: lane 1 is not flagged
\* and the one scalar call is that of lane 2
C26_Witness ==
  /\ kernel = "sv_tanf" /\ pc = "done" /\ route = "special"
  /\ arg1 = <<S(\H4780), S(\H4780)>> /\ pg = <<FALSE, TRUE>>
  /\ special = <<FALSE, TRUE>>
  /\ Len(calls) = 1 /\ calls[1].lane = 2
  /\ res[1] = Unspec

\* the position of a call in its straight-line code
Rank(p) ==
  CASE p = "start" -> 0
    [] p = "classified" -> 1
    [] p = "reduced" -> 2
    [] p = "poly" -> 3
    [] p = "reconstructed" -> 4
    [] p = "done" -> 5
    [] OTHER -> 0

\* C27: every step of a call that has not returned moves it forward through
\* the five stages, whatever the input, so a call takes at most five steps to
\* its return; the one loop of the kernels, in erfc's lookup, runs
\* ERFC_POLY_ORDER + 1 times for every index; and a call makes at most one
\* scalar call per lane, hence at most as many as the vector has lanes.
C27_BoundedCall ==
  /\ [][pc # "done" => Rank(pc') > Rank(pc) /\ Rank(pc') <= 5]_vars
  /\ []((kernel = "erfc" /\ pc \in {"reduced", "poly", "reconstructed"})
          => \A l \in LaneSet : Len(lookup(red[l].i)) = ERFC_POLY_ORDER + 1)
  /\ [](/\ Len(calls) <= Len(arg1)
        /\ \A i, j \in DOMAIN calls :
             calls[i].lane = calls[j].lane => i = j)

\* logf with all four lanes special, returned from the second call: one
\* scalar call for each lane
C27_Witness ==
  /\ pc = "done" /\ kernel = "logf" /\ rep = 1
  /\ route = "special"
  /\ Len(calls) = 4 /\ \A l \in LaneSet : special[l]

\* C30: on every 64-bit pattern the classifier of SVE log2, which compares
\* the top 16 bits, and the classifier of log10, which compares all 64, flag
\* the same inputs: those whose top 16 bits are not in 0x0010 .. 0x7fef, that
\* is, everything but the positive normal numbers.
C30_SameClassifier ==
  (bits.op = "cmp" /\ bits.w \in Words64) =>
    /\ bits.out.sv_log2 = bits.out.log10
    /\ bits.out.log10 <=> ~(bits.w[4] \in 16 .. 32751)

\* the largest subnormal, flagged by both, with all of its low 48 bits set
C30_Witness ==
  /\ bits.op = "cmp"
  /\ bits.w = W64(\H000F, \HFFFF, \HFFFF, \HFFFF)
  /\ bits.out.sv_log2 /\ bits.out.log10

\* C28 as stated: an input that the classifier of sinhf does not flag is not
\* flagged by the classifier of the expm1f kernel that sinhf calls on |x|,
\* so that kernel never takes its own scalar fallback for it
C28_Original ==
  (bits.op = "sinhf" /\ ~bits.out.sinhf) => ~bits.out.expm1f

\* C28 (amended): the classifier of sinhf leaves an input unflagged exactly
\* when the bits of |x| are below 0x42b17218, and such an input is flagged by
\* the classifier of the expm1f kernel that sinhf calls exactly when the
\* bits of |x| are at or above 0x42af5e20, or, in the build of expm1f with
\* WANT_SIMD_EXCEPT, below 0x34000000
C28_Amended ==
  bits.op = "sinhf" =>
    LET hi == bits.out.ax[2]
        lo == bits.out.ax[1]
    IN  /\ ~bits.out.sinhf <=> (hi < 17073 \/ (hi = 17073 /\ lo < 29208))
        /\ ~bits.out.sinhf =>
              (bits.out.expm1f <=>
                 \/ hi > 17071
                 \/ hi = 17071 /\ lo >= 24096
                 \/ bits.out.ex /\ hi < 13312)

\* |x| = 88 passes the classifier of sinhf and makes the fast build of expm1f
\* take its scalar fallback
C28_Witness ==
  /\ bits.op = "sinhf" /\ bits.w = W32(\H42B0, 0)
  /\ ~bits.out.ex /\ ~bits.out.sinhf /\ bits.out.expm1f

\* C29: for a lane that the classifier of expm1f, expm1 or double sinh does
\* not flag, i = round(x / ln2) satisfies 0 <= i + bias <= 2 * bias, and
\* u = (i << mantissa bits) + asuint (1.0) has the sign bit clear, the
\* exponent field i + bias, which is not all ones, and a zero fraction
C29_Pow2InRange ==
  (bits.op = "pow2" /\ ~bits.out.flag) =>
    LET F == Pow2Format(bits.out.k)
    IN  /\ bits.out.small
        /\ 0 <= bits.out.i + F.bias /\ bits.out.i + F.bias <= 2 * F.bias
        /\ SignBit(bits.out.u) = 0
        /\ ExpField(F, bits.out.u) = bits.out.i + F.bias
        /\ ExpField(F, bits.out.u) # EField(F)
        /\ bits.out.u = TopWord(F, 0, bits.out.i + F.bias)

\* the largest pattern that expm1 does not flag gives i = 1023 and the
\* exponent field 2046
C29_Witness ==
  /\ bits.op = "pow2" /\ bits.out.k = "expm1" /\ ~bits.out.flag
  /\ bits.w = W64(\H4086, \H2B7D, \H369A, \H5AA8)
  /\ bits.out.i = 1023 /\ bits.out.u = W64(\H7FE0, 0, 0, 0)

====
